---- MODULE Spec2Model ----
(***************************************************************************)
(* Model of the combat resolution core of dnd-combat-sim:                  *)
(*   - the damage / death-save state machine of Creature (creature.py),    *)
(*   - the post-damage trait UndeadFortitude (traits/creature_traits.py),  *)
(*   - the turn loop of Encounter1v1 (encounter.py).                       *)
(* The specifications, defined over the same variables:                    *)
(*   SpecCreature   any sequence of public Creature operations on one      *)
(*                  creature (take_damage, heal, start_turn, the           *)
(*                  post-damage trait, spawn);                             *)
(*   Spec           one run of Encounter1v1.run_encounter;                 *)
(*   SpecAttack     the steps of one attack, for given ledger entries;     *)
(*   SpecRanged     run_encounter for creatures with ranged, thrown and    *)
(*                  reach weapons;                                         *)
(*   SpecSpawn      spawn() and the methods called on the copies;          *)
(*   SpecConstruct  the construction of one creature from its arguments;   *)
(*   SpecBatch      MultiEncounter1v1.run, encounter after encounter.      *)
(***************************************************************************)
EXTENDS Integers, FiniteSets, Sequences, TLC

VARIABLES
    creatures,   \* creature id -> the Creature object's fields
    last,        \* the last Creature operation: its arguments, the fields it read, its result
    pc,          \* position of run_encounter
    battle,      \* the Battle context: round counter and condition ledger
    initiative,  \* the turn order rolled by roll_initiative
    turn,        \* index into initiative of the creature whose turn it is
    attacks_made,\* iterations of the loop of Encounter1v1.attack done in this turn
    max_rounds,  \* the argument of run_encounter
    pending,     \* locals of Encounter1v1.attack between take_damage and the traits
    result       \* what run_encounter returned, or the error that ended it

vars == <<creatures, last, pc, battle, initiative, turn, attacks_made, max_rounds,
          pending, result>>

encounter_vars == <<pc, battle, initiative, turn, attacks_made, max_rounds, pending, result>>

(***************************************************************************)
(* Bounds of the model.                                                    *)
(***************************************************************************)
\* largest max_hp of a modelled creature
MaxHP == 2
\* death-save failures beyond which SpecCreature stops hitting a creature
MaxFailures == 4
\* largest max_rounds passed to run_encounter
MaxRounds == 3
\* the methods a caller calls on one creature object, under SpecSpawn
MaxCalls == 3

\* damage totals tried: enough to exceed hp + max_hp (instant death)
MaxDamage == 2 * MaxHP + 1

Min(a, b) == IF a < b THEN a ELSE b

Max(a, b) == IF a > b THEN a ELSE b

Creatures == {1, 2}

\* the faces of a d20
D20 == 1..20

\* the faces an encounter rolls on its d20s: a natural 1, a low roll, a roll of 10 and a
\* natural 20
Faces == {1, 5, 10, 20}

(***************************************************************************)
(* rules.py: the members of Condition and DamageOutcome the core uses.     *)
(***************************************************************************)
Condition ==
    {"dead", "dying", "unconscious", "stable", "paralyzed", "petrified", "stunned"}

DamageOutcome ==
    {"alive", "knocked_out", "still_dying", "dead", "instant_death", "reanimated"}

(***************************************************************************)
(* Creature: the damage / death-save state machine.                        *)
(***************************************************************************)
\* Creature._die: the state it leaves (it returns DamageOutcome.dead)
_die(self) ==
    [self EXCEPT !.conditions = (@ \cup {"dead"}) \ {"dying", "unconscious"}]

\* a _reset_death_saves that wakes the creature up whatever wake_up says
_reset_death_saves_waking(self, wake_up) ==
    [self EXCEPT !.death_saves = [successes |-> 0, failures |-> 0],
                 !.conditions = @ \ {"dying", "unconscious"}]

\* Creature._reset_death_saves
_reset_death_saves(self, wake_up) ==
    [self EXCEPT !.death_saves = [successes |-> 0, failures |-> 0],
                 !.conditions = IF wake_up THEN @ \ {"dying", "unconscious"}
                                ELSE @ \ {"dying"}]

\* Creature.heal
heal(self, amount, wake_up) ==
    [self EXCEPT !.hp = Min(self.hp + amount, self.max_hp),
                 !.conditions = IF wake_up THEN @ \ {"dead", "dying", "unconscious"}
                                ELSE @ \ {"dead", "dying"}]

\* a take_damage that subtracts the whole damage, without the cap at the hit points
damage_taken_uncapped(self, total_damage) == total_damage

\* take_damage: damage_taken = min(total_damage, self.hp)
damage_taken_of(self, total_damage) == Min(total_damage, self.hp)

\* an instant-death test that also fires when the excess equals max_hp
is_instant_death_at_equal(self, excess_damage) == excess_damage >= self.max_hp

\* take_damage: the instant-death test on the excess damage
is_instant_death(self, excess_damage) == excess_damage > self.max_hp

\* a hit on a dying creature that counts one failure even when critical
failures_from_hit_ignoring_crit(crit) == 1

\* take_damage: failures a dying creature gets from a hit
failures_from_hit(crit) == IF crit THEN 2 ELSE 1

\* a take_damage that knocks out every creature, whether it makes death saves or not
take_damage_at_zero_hp_always_knocked_out(hit, crit) ==
    LET failed == [hit EXCEPT !.death_saves.failures = @ + failures_from_hit(crit)]
    IN  IF "dying" \in hit.conditions
        THEN IF failed.death_saves.failures >= 3
             THEN [self |-> _die(failed), outcome |-> "dead"]
             ELSE [self |-> failed, outcome |-> "still_dying"]
        ELSE [self |-> [hit EXCEPT !.conditions = @ \cup {"unconscious", "dying"}],
              outcome |-> "knocked_out"]

\* take_damage, from "if Condition.dying in self.conditions" on: what happens to a
\* creature the damage has left at 0 hit points
take_damage_at_zero_hp(hit, crit) ==
    LET failed == [hit EXCEPT !.death_saves.failures = @ + failures_from_hit(crit)]
    IN  IF "dying" \in hit.conditions
        THEN IF failed.death_saves.failures >= 3
             THEN [self |-> _die(failed), outcome |-> "dead"]
             ELSE [self |-> failed, outcome |-> "still_dying"]
        ELSE IF hit.make_death_saves
        THEN [self |-> [hit EXCEPT !.conditions = @ \cup {"unconscious", "dying"}],
              outcome |-> "knocked_out"]
        ELSE [self |-> _die(hit), outcome |-> "dead"]

\* Creature.take_damage: the creature afterwards and the DamageOutcome returned
take_damage(self, total_damage, crit) ==
    LET damage_taken == damage_taken_of(self, total_damage)
        excess_damage == total_damage - damage_taken
        hit == [self EXCEPT !.hp = @ - damage_taken]
    IN  IF is_instant_death(hit, excess_damage)
        THEN [self |-> _die(hit), outcome |-> "instant_death"]
        ELSE IF hit.hp > 0
        THEN [self |-> hit, outcome |-> "alive"]
        ELSE take_damage_at_zero_hp(hit, crit)

\* a death save on which a natural 1 counts one failure
death_save_roll_without_critical_failure(self, death_save) ==
    IF death_save <= 9
    THEN [self |-> [self EXCEPT !.death_saves.failures = @ + 1], result |-> "failure"]
    ELSE IF death_save <= 19
    THEN LET saved == [self EXCEPT !.death_saves.successes = @ + 1]
         IN  IF saved.death_saves.successes = 3
             THEN [self |-> _reset_death_saves(
                                [saved EXCEPT !.conditions = @ \cup {"stable"}], FALSE),
                   result |-> "stabilised"]
             ELSE [self |-> saved, result |-> "success"]
    ELSE [self |-> _reset_death_saves(heal(self, 1, TRUE), FALSE),
          result |-> "critical success"]

\* roll_death_save: the branch on the d20, before the check of the failures
death_save_roll(self, death_save) ==
    IF death_save = 1
    THEN [self |-> [self EXCEPT !.death_saves.failures = @ + 2],
          result |-> "critical failure"]
    ELSE IF 2 <= death_save /\ death_save <= 9
    THEN [self |-> [self EXCEPT !.death_saves.failures = @ + 1], result |-> "failure"]
    ELSE IF 10 <= death_save /\ death_save <= 19
    THEN LET saved == [self EXCEPT !.death_saves.successes = @ + 1]
         IN  IF saved.death_saves.successes = 3
             THEN [self |-> _reset_death_saves(
                                [saved EXCEPT !.conditions = @ \cup {"stable"}], FALSE),
                   result |-> "stabilised"]
             ELSE [self |-> saved, result |-> "success"]
    ELSE [self |-> _reset_death_saves(heal(self, 1, TRUE), FALSE),
          result |-> "critical success"]

\* Creature.roll_death_save, for the d20 value death_save
roll_death_save(self, death_save) ==
    LET rolled == death_save_roll(self, death_save)
    IN  IF rolled.self.death_saves.failures >= 3
        THEN [self |-> _die(rolled.self), result |-> "death"]
        ELSE rolled

\* Creature.start_turn, death_save being the d20 rolled if the creature is dying
start_turn(self, death_save) ==
    LET reset == [self EXCEPT !.remaining_movement = self.speed,
                              !.attack_used = FALSE,
                              !.weapons_used_this_turn = {},
                              !.bonus_action_used = FALSE,
                              !.reaction_used = FALSE]
    IN  IF "dying" \in reset.conditions
        THEN roll_death_save(reset, death_save).self
        ELSE reset

\* Abilities.get_modifier
get_modifier(abilities, ability) == (abilities[ability] - 10) \div 2

\* Creature._roll_hit_points, rolled being the sum of the hit dice
_roll_hit_points(self, rolled) ==
    Max(rolled + get_modifier(self.abilities, "con") * self.num_hit_die, 1)

\* the sums num_dice dice of max_roll sides can give (dice.roll)
roll(num_dice, max_roll) == num_dice..(num_dice * max_roll)

\* a spawn that does not run start_turn on the copy
spawn_without_start_turn(self, rolled, death_save) ==
    LET copy == IF self.num_hit_die # 0
                THEN [self EXCEPT !.hp = _roll_hit_points(self, rolled),
                                  !.max_hp = _roll_hit_points(self, rolled)]
                ELSE [self EXCEPT !.hp = self.max_hp]
    IN  [copy EXCEPT
            !.conditions = {},
            !.death_saves = [successes |-> 0, failures |-> 0]]

\* Creature.spawn: the new creature; rolled is the new hit-dice sum, death_save the
\* d20 of the start_turn it runs on the copy
spawn(self, rolled, death_save) ==
    LET copy == IF self.num_hit_die # 0
                THEN [self EXCEPT !.hp = _roll_hit_points(self, rolled),
                                  !.max_hp = _roll_hit_points(self, rolled)]
                ELSE [self EXCEPT !.hp = self.max_hp]
    IN  [start_turn(copy, death_save) EXCEPT
            !.conditions = {},
            !.death_saves = [successes |-> 0, failures |-> 0]]

(***************************************************************************)
(* traits/creature_traits.py                                               *)
(***************************************************************************)
\* Creature.roll_saving_throw, save being the d20
roll_saving_throw(self, ability, save) ==
    save + get_modifier(self.abilities, ability)
         + (IF ability \in self.save_proficiencies THEN self.proficiency ELSE 0)

\* an Undead Fortitude that makes its save against a critical hit too
UndeadFortitude_on_take_damage_despite_crit(self, damage, damage_result, save) ==
    IF damage_result \notin {"knocked_out", "dead"}
    THEN [self |-> self, outcome |-> damage_result]
    ELSE IF damage.radiant
    THEN [self |-> self, outcome |-> damage_result]
    ELSE IF roll_saving_throw(self, "con", save) >= 5 + damage.total
    THEN [self |-> heal(self, 1, TRUE), outcome |-> "reanimated"]
    ELSE [self |-> self, outcome |-> damage_result]

\* UndeadFortitude.on_take_damage: the creature afterwards and the outcome returned.
\* damage is the AttackDamage: its total, from_crit, and whether it has a radiant part
UndeadFortitude_on_take_damage(self, damage, damage_result, save) ==
    IF damage_result \notin {"knocked_out", "dead"}
    THEN [self |-> self, outcome |-> damage_result]
    ELSE IF damage.from_crit
    THEN [self |-> self, outcome |-> damage_result]
    ELSE IF damage.radiant
    THEN [self |-> self, outcome |-> damage_result]
    ELSE IF roll_saving_throw(self, "con", save) >= 5 + damage.total
    THEN [self |-> heal(self, 1, TRUE), outcome |-> "reanimated"]
    ELSE [self |-> self, outcome |-> damage_result]

\* Encounter1v1._apply_post_damage_traits: every attached OnTakeDamageTrait in turn
_apply_post_damage_traits(target, attack_damage, damage_outcome, save) ==
    IF "undead_fortitude" \in target.traits
    THEN UndeadFortitude_on_take_damage(target, attack_damage, damage_outcome, save)
    ELSE [self |-> target, outcome |-> damage_outcome]


(***************************************************************************)
(* The Weapon a creature owns (the Attack dataclass of attack.py).  An     *)
(* optional value is a sequence: <<>> for None, <<v>> for the value v.     *)
(* Every modelled weapon has the one damage formula `damage`; versatile    *)
(* (two-handed) and bonus damage are not modelled.                         *)
(***************************************************************************)
Weapon(name, melee, num_dice, max_roll, damage_type) ==
    [name |-> name, melee |-> melee,
     num_dice |-> num_dice, max_roll |-> max_roll, damage_type |-> damage_type,
     range |-> <<>>, reach |-> FALSE, thrown |-> FALSE, finesse |-> FALSE,
     ammunition |-> FALSE, proficient |-> TRUE,
     quantity |-> 1,
     traits |-> <<{}>>]

\* the unarmed strike Creature.__init__ appends to every creature's weapons
unarmed_strike == Weapon("unarmed_strike", TRUE, 1, 1, "bludgeoning")

\* Attack.__eq__: every attribute but the quantity
same_weapon(weapon, other) ==
    [weapon EXCEPT !.quantity = 0] = [other EXCEPT !.quantity = 0]

(***************************************************************************)
(* Creature.__init__: the fields after construction.  p gives the          *)
(* arguments; hp is the fixed or rolled number of hit points, num_hit_die  *)
(* is 0 when hp was given as an integer.  A position is the x coordinate:  *)
(* every creature stands on the line y = 0.                                *)
(***************************************************************************)
Creature_init(p) ==
    [ac |-> p.ac,
     hp |-> p.hp, max_hp |-> p.hp,
     num_hit_die |-> p.num_hit_die, hit_die |-> p.hit_die,
     abilities |-> p.abilities,
     attack_bonus |-> p.attack_bonus,
     weapons |-> p.attacks \o <<unarmed_strike>>,
     different_attacks |-> p.different_attacks,
     immunities |-> p.immunities,
     make_death_saves |-> p.make_death_saves,
     num_attacks |-> p.num_attacks,
     position |-> p.position,
     proficiency |-> p.proficiency,
     resistances |-> p.resistances,
     save_proficiencies |-> p.save_proficiencies,
     senses |-> p.senses,
     size |-> p.size,
     speed |-> p.speed,
     traits |-> p.traits,
     vulnerabilities |-> p.vulnerabilities,
     remaining_movement |-> p.speed,
     attack_used |-> FALSE,
     weapons_used_this_turn |-> {},
     bonus_action_used |-> FALSE,
     reaction_used |-> FALSE,
     conditions |-> {},
     death_saves |-> [successes |-> 0, failures |-> 0]]

\* the default Abilities(10, 10, 10, 10, 10, 10) of Creature.__init__
DefaultAbilities == [str |-> 10, dex |-> 10, con |-> 10]

\* the arguments of Creature.__init__ at their defaults, for a medium creature of
\* fixed hit points and proficiency bonus 2
DefaultArguments ==
    [ac |-> 10, hp |-> MaxHP, num_hit_die |-> 0, hit_die |-> MaxHP,
     abilities |-> DefaultAbilities, attack_bonus |-> <<>>, attacks |-> <<>>,
     different_attacks |-> TRUE, immunities |-> {}, make_death_saves |-> FALSE,
     num_attacks |-> 1, position |-> 0, proficiency |-> 2, resistances |-> {},
     save_proficiencies |-> {}, senses |-> {}, size |-> "medium", speed |-> 30,
     traits |-> {}, vulnerabilities |-> {}]

\* the creatures SpecCreature starts from: every max_hp up to the bound, with and
\* without death saves, Undead Fortitude and hit dice
CreatureInputs ==
    { Creature_init([DefaultArguments EXCEPT
                        !.hp = h, !.num_hit_die = n, !.make_death_saves = m,
                        !.traits = t]) :
        h \in 1..MaxHP, n \in {0, 1}, m \in BOOLEAN,
        t \in {{}, {"undead_fortitude"}} }

(***************************************************************************)
(* Creature: which weapons can be used, and what damage to expect of them. *)
(* A weapon is named by its index in self.weapons; a list of weapons is a  *)
(* sequence of indices.  Expected damages are held as eight times their    *)
(* value, so that halving them twice stays exact.  The modelled creatures  *)
(* expect more than 0 damage of every weapon given to the constructor.     *)
(***************************************************************************)
\* utils.get_distance, for two positions on the line y = 0
get_distance(point1, point2) ==
    IF point1 >= point2 THEN point1 - point2 ELSE point2 - point1

\* the largest element of a non-empty sequence of integers
SeqMax(values) ==
    CHOOSE m \in {values[k] : k \in DOMAIN values} :
        \A k \in DOMAIN values : values[k] <= m

\* Creature._get_modifier for a collection of abilities: the highest modifier
_get_modifier(self, abilities) ==
    CHOOSE m \in {get_modifier(self.abilities, a) : a \in abilities} :
        \A a \in abilities : get_modifier(self.abilities, a) <= m

\* Creature._get_attack_modifier
_get_attack_modifier(self, attack) ==
    IF attack.finesse THEN _get_modifier(self, {"str", "dex"})
    ELSE IF attack.melee THEN _get_modifier(self, {"str"})
    ELSE _get_modifier(self, {"dex"})

\* self.weapons
all_weapons(self) == [i \in 1..Len(self.weapons) |-> i]

\* self._melee_weapons: the melee weapons among the constructor's attacks, the
\* unarmed strike appended afterwards not being one of them
_melee_weapons(self) ==
    SelectSeq([i \in 1..(Len(self.weapons) - 1) |-> i],
              LAMBDA i : self.weapons[i].melee)

\* max_range with no limit for a weapon that has a range
max_range_without_long_range(weapon) ==
    IF weapon.range # <<>> THEN 1000
    ELSE IF weapon.reach THEN 10
    ELSE 5

\* _usable_weapons: the farthest a weapon can be used at
max_range(weapon) ==
    IF weapon.range # <<>> THEN weapon.range[2]
    ELSE IF weapon.reach THEN 10
    ELSE 5

\* _usable_weapons without its test of the quantity
_usable_weapons_with_none_left(self, weapons, distance_from_target) ==
    SelectSeq(weapons,
              LAMBDA i :
                  /\ ~(/\ self.different_attacks
                       /\ self.weapons[i].name \in self.weapons_used_this_turn)
                  /\ ~(/\ distance_from_target # <<>>
                       /\ distance_from_target[1] > max_range(self.weapons[i])))

\* _usable_weapons without its test of the weapons used this turn
_usable_weapons_used_or_not(self, weapons, distance_from_target) ==
    SelectSeq(weapons,
              LAMBDA i :
                  /\ ~(self.weapons[i].quantity < 1)
                  /\ ~(/\ distance_from_target # <<>>
                       /\ distance_from_target[1] > max_range(self.weapons[i])))

\* Creature._usable_weapons
_usable_weapons(self, weapons, distance_from_target) ==
    SelectSeq(weapons,
              LAMBDA i :
                  /\ ~(self.weapons[i].quantity < 1)
                  /\ ~(/\ self.different_attacks
                       /\ self.weapons[i].name \in self.weapons_used_this_turn)
                  /\ ~(/\ distance_from_target # <<>>
                       /\ distance_from_target[1] > max_range(self.weapons[i])))

\* eight times Weapon.roll_damage(damage_modifier, use_average=True).total
average_damage(weapon, damage_modifier) ==
    Max(4 * (weapon.max_roll + 1) * weapon.num_dice + 8 * damage_modifier, 0)

\* _get_expected_damages: the expected damage of one usable weapon at the distance
expected_damage_at(self, weapon, distance) ==
    LET expected_damage == average_damage(weapon, _get_attack_modifier(self, weapon))
    IN  IF distance = <<>> THEN expected_damage
        ELSE IF distance[1] <= 5
        THEN IF ~weapon.melee THEN expected_damage \div 2 ELSE expected_damage
        ELSE IF distance[1] = 10 /\ weapon.reach THEN expected_damage
        ELSE IF weapon.range # <<>> /\ weapon.range[1] < distance[1]
        THEN expected_damage \div 2
        ELSE expected_damage

\* _get_expected_damages, its last loop: a weapon whose traits are not None gets the
\* best of the expected damages
raised_to_best_damage(self, usable_weapons, weapon_damages) ==
    [k \in DOMAIN usable_weapons |->
        <<usable_weapons[k],
          IF self.weapons[usable_weapons[k]].traits # <<>>
          THEN SeqMax(weapon_damages) ELSE weapon_damages[k]>>]

\* _get_expected_damages, for the weapons _usable_weapons has kept
expected_damages_of(self, usable_weapons, distance) ==
    raised_to_best_damage(
        self, usable_weapons,
        [k \in DOMAIN usable_weapons |->
            expected_damage_at(self, self.weapons[usable_weapons[k]], distance)])

\* Creature._get_expected_damages: <<weapon, expected damage>> for every usable weapon
_get_expected_damages(self, weapons, distance) ==
    expected_damages_of(self, _usable_weapons(self, weapons, distance), distance)

\* some weapon of the list has no range
any_without_range(self, weapons) ==
    \E k \in DOMAIN weapons : self.weapons[weapons[k]].range = <<>>

\* _get_expected_damages raises TypeError at weapon.range[0] for a weapon without a
\* range that is usable beyond 5 ft, unless it has reach and the distance is 10
_get_expected_damages_raises(self, weapons, distance) ==
    /\ distance # <<>>
    /\ distance[1] > 5
    /\ any_without_range(
           self,
           SelectSeq(_usable_weapons(self, weapons, distance),
                     LAMBDA i : ~(distance[1] = 10 /\ self.weapons[i].reach)))

RECURSIVE best_melee_weapon_from(_, _, _, _, _)
\* the loop of the property best_melee_weapon from the k-th expected damage on; 0 is None
best_melee_weapon_from(self, damages, k, best_melee_damage, best) ==
    IF k > Len(damages) THEN best
    ELSE LET weapon == self.weapons[damages[k][1]]
             expected_damage == damages[k][2]
         IN  IF expected_damage > best_melee_damage
             THEN best_melee_weapon_from(self, damages, k + 1, expected_damage,
                                         damages[k][1])
             ELSE IF /\ expected_damage = best_melee_damage
                     /\ \/ weapon.reach
                        \/ best # 0 /\ self.weapons[best].thrown /\ ~weapon.thrown
             THEN best_melee_weapon_from(self, damages, k + 1, best_melee_damage,
                                         damages[k][1])
             ELSE best_melee_weapon_from(self, damages, k + 1, best_melee_damage, best)

\* Creature.best_melee_weapon
best_melee_weapon(self) ==
    best_melee_weapon_from(self, _get_expected_damages(self, _melee_weapons(self), <<>>),
                           1, 0, 0)

\* weapon == best, for best an index or 0 for None
is_weapon(self, weapon, best) ==
    best # 0 /\ same_weapon(weapon, self.weapons[best])

RECURSIVE safekept_melee_weapon_from(_, _, _, _, _)
\* _get_attack_options: the best melee weapon its first loop keeps for safekeeping
safekept_melee_weapon_from(self, damages, k, best_melee_damage, best) ==
    IF k > Len(damages) THEN best
    ELSE LET weapon == self.weapons[damages[k][1]]
             expected_damage == damages[k][2]
         IN  IF expected_damage > best_melee_damage
             THEN safekept_melee_weapon_from(self, damages, k + 1, expected_damage,
                                             damages[k][1])
             ELSE IF /\ expected_damage = best_melee_damage
                     /\ (weapon.reach \/ ~weapon.thrown)
             THEN safekept_melee_weapon_from(self, damages, k + 1, best_melee_damage,
                                             damages[k][1])
             ELSE safekept_melee_weapon_from(self, damages, k + 1, best_melee_damage,
                                             best)

\* _get_attack_options: the reach options of its first loop
reach_options(self, distance) ==
    SelectSeq(_get_expected_damages(self, _melee_weapons(self), <<>>),
              LAMBDA option : distance <= 10 /\ self.weapons[option[1]].reach)

\* _get_attack_options: what its last loop does not skip of the expected damages at
\* the distance, i.e. neither the best melee weapon nor one of the reach weapons
not_skipped(self, damages, best_melee_weapon_kept, reach_weapons) ==
    SelectSeq(damages,
              LAMBDA option :
                  /\ ~is_weapon(self, self.weapons[option[1]], best_melee_weapon_kept)
                  /\ ~\E r \in DOMAIN reach_weapons :
                         same_weapon(self.weapons[option[1]],
                                     self.weapons[reach_weapons[r][1]]))

\* _get_attack_options: the expected damages its last loop makes thrown options of
thrown_options(self, distance) ==
    not_skipped(self,
                _get_expected_damages(self, all_weapons(self), <<distance>>),
                safekept_melee_weapon_from(
                    self, _get_expected_damages(self, _melee_weapons(self), <<>>),
                    1, 0, 0),
                reach_options(self, distance))

\* _get_attack_options, distance None, and the reach options: the expected damages as
\* options that are not thrown
not_thrown(damages) ==
    [k \in DOMAIN damages |-> <<damages[k][1], damages[k][2], FALSE>>]

\* _get_attack_options, distance 5: the ranged weapons at half their expected damage
options_in_melee(self, damages) ==
    [k \in DOMAIN damages |->
        <<damages[k][1],
          IF ~self.weapons[damages[k][1]].melee
          THEN damages[k][2] \div 2 ELSE damages[k][2],
          FALSE>>]

\* _get_attack_options, its last loop: thrown options, at half their expected damage
\* beyond the normal range
options_at_range(self, damages, distance) ==
    [k \in DOMAIN damages |->
        <<damages[k][1],
          IF /\ self.weapons[damages[k][1]].range # <<>>
             /\ self.weapons[damages[k][1]].range[1] < distance
          THEN damages[k][2] \div 2 ELSE damages[k][2],
          TRUE>>]

\* Creature._get_attack_options: <<weapon, expected damage, thrown>> for every attack
\* that can be made at the distance
_get_attack_options(self, distance) ==
    IF distance = <<>>
    THEN not_thrown(_get_expected_damages(self, all_weapons(self), <<>>))
    ELSE IF distance[1] = 5
    THEN options_in_melee(self, _get_expected_damages(self, all_weapons(self), <<>>))
    ELSE not_thrown(reach_options(self, distance[1]))
         \o options_at_range(self, thrown_options(self, distance[1]), distance[1])

\* the weapons of the options
weapons_of(options) == [k \in DOMAIN options |-> options[k][1]]

\* _get_attack_options raises TypeError at weapon.range[0] when a weapon without a
\* range gets to its last loop, or when _get_expected_damages raises
_get_attack_options_raises(self, distance) ==
    /\ distance # <<>>
    /\ distance[1] # 5
    /\ \/ _get_expected_damages_raises(self, all_weapons(self), distance)
       \/ any_without_range(self, weapons_of(thrown_options(self, distance[1])))

\* choose_attack: melee_options
melee_options(self, attack_options) ==
    SelectSeq(attack_options, LAMBDA opt : self.weapons[opt[1]].range = <<>>)

\* choose_attack: ranged_options
ranged_options(self, attack_options) ==
    SelectSeq(attack_options, LAMBDA opt : self.weapons[opt[1]].range # <<>>)

\* the best expected damage among attack options
best_damage_of(attack_options) ==
    SeqMax([k \in DOMAIN attack_options |-> attack_options[k][2]])

\* choose_attack: the ranged options that trump any melee option
trumping(options, best_melee_damage) ==
    SelectSeq(options, LAMBDA opt : opt[2] > best_melee_damage)

\* choose_attack: melee_options + ranged_options, of the options at the distance
options_in_order(self, attack_options, distance) ==
    IF distance <= 5
    THEN melee_options(self, attack_options)
         \o trumping(ranged_options(self, attack_options),
                     best_damage_of(melee_options(self, attack_options)))
    ELSE melee_options(self, attack_options) \o ranged_options(self, attack_options)

RECURSIVE SeqSum(_, _)
\* the sum of the expected damages of the options from the k-th on
SeqSum(options, k) ==
    IF k > Len(options) THEN 0 ELSE options[k][2] + SeqSum(options, k + 1)

\* choose_attack raises ValueError from max() of no melee option, IndexError from
\* random.choices of no option, ValueError from weights that sum to 0
choose_among_raises(self, attack_options, distance) ==
    IF distance <= 5 /\ melee_options(self, attack_options) = <<>> THEN "ValueError"
    ELSE IF options_in_order(self, attack_options, distance) = <<>> THEN "IndexError"
    ELSE IF SeqSum(options_in_order(self, attack_options, distance), 1) <= 0
    THEN "ValueError"
    ELSE "none"

\* the exception choose_attack raises at the distance, "none" if it returns; TypeError
\* is that of _get_attack_options
choose_attack_raises(self, distance) ==
    IF _get_attack_options_raises(self, <<distance>>) THEN "TypeError"
    ELSE choose_among_raises(self, _get_attack_options(self, <<distance>>), distance)

\* random.choices(options, weights): the <<weapon, thrown>> of the options of a
\* positive weight
choices(options) ==
    {<<options[k][1], options[k][3]>> : k \in {j \in DOMAIN options : options[j][2] > 0}}

\* Creature.choose_attack: the <<weapon, thrown>> pairs it can return
choose_attack(self, distance) ==
    choices(options_in_order(self, _get_attack_options(self, <<distance>>), distance))

(***************************************************************************)
(* Creature: movement, the choice of action, the attack and damage rolls.  *)
(***************************************************************************)
RECURSIVE _get_ideal_distance_from(_, _, _, _, _)
\* the loop of _get_ideal_distance from the k-th expected damage on
_get_ideal_distance_from(self, damages, k, ideal_distance, max_expected_damage) ==
    IF k > Len(damages) THEN ideal_distance
    ELSE LET weapon == self.weapons[damages[k][1]]
             expected_damage == damages[k][2]
             is_best == is_weapon(self, weapon, best_melee_weapon(self))
         IN  IF expected_damage > max_expected_damage
             THEN _get_ideal_distance_from(
                      self, damages, k + 1,
                      IF is_best \/ weapon.range = <<>>
                      THEN (IF weapon.reach THEN 10 ELSE 5)
                      ELSE weapon.range[1],
                      expected_damage)
             ELSE IF expected_damage = max_expected_damage
             THEN _get_ideal_distance_from(
                      self, damages, k + 1,
                      IF weapon.range # <<>> /\ ~is_best
                      THEN Max(ideal_distance, weapon.range[1])
                      ELSE IF weapon.reach THEN Max(ideal_distance, 10)
                      ELSE ideal_distance,
                      max_expected_damage)
             ELSE _get_ideal_distance_from(self, damages, k + 1, ideal_distance,
                                           max_expected_damage)

\* Creature._get_ideal_distance
_get_ideal_distance(self) ==
    _get_ideal_distance_from(self, _get_expected_damages(self, all_weapons(self), <<>>),
                             1, 5, 0)

\* choose_movement: the enemy has a reach weapon and is at most 10 ft away
in_enemy_reach(self, enemy) ==
    /\ get_distance(self.position, enemy.position) <= 10
    /\ \E i \in DOMAIN enemy.weapons : enemy.weapons[i].reach

\* choose_movement: the position movement_toward_enemy feet nearer to the enemy
toward_enemy(self, enemy, movement_toward_enemy) ==
    IF enemy.position < self.position
    THEN <<self.position - movement_toward_enemy>>
    ELSE <<self.position + movement_toward_enemy>>

\* choose_movement: the ideal distance from an enemy distance feet away
ideal_distance_at(self, enemy) ==
    IF in_enemy_reach(self, enemy)
    THEN \* both lists of options are those at 10 ft
         IF best_damage_of(_get_attack_options(self, <<10>>))
                > best_damage_of(_get_attack_options(self, <<10>>))
         THEN 10 ELSE 5
    ELSE _get_ideal_distance(self)

\* a choose_movement that plans a move toward the ideal distance also from within 5 ft
choose_movement_also_in_melee(self, enemy) ==
    IF self.remaining_movement = 0 THEN <<>>
    ELSE toward_enemy(self, enemy,
                      Min(get_distance(self.position, enemy.position)
                              - ideal_distance_at(self, enemy),
                          self.remaining_movement))

\* Creature.choose_movement([enemy]): <<>> for None, else <<the new position>>
choose_movement(self, enemy) ==
    IF self.remaining_movement = 0 THEN <<>>
    ELSE IF get_distance(self.position, enemy.position) <= 5 THEN <<>>
    ELSE toward_enemy(self, enemy,
                      Min(get_distance(self.position, enemy.position)
                              - ideal_distance_at(self, enemy),
                          self.remaining_movement))

\* the exception choose_movement raises, "none" if it returns: TypeError from
\* _get_attack_options(10), ValueError from max() of no attack option
choose_movement_raises(self, enemy) ==
    IF \/ self.remaining_movement = 0
       \/ get_distance(self.position, enemy.position) <= 5
       \/ ~in_enemy_reach(self, enemy)
    THEN "none"
    ELSE IF _get_attack_options_raises(self, <<10>>) THEN "TypeError"
    ELSE IF _get_attack_options(self, <<10>>) = <<>> THEN "ValueError"
    ELSE "none"

\* Creature.move
move(self, new_position) == [self EXCEPT !.position = new_position]

\* Creature._can_attack
_can_attack(self, distance) ==
    _usable_weapons(self, all_weapons(self), <<distance - self.remaining_movement>>) # <<>>

\* Creature.choose_action([enemy]): the action, and the creature afterwards
choose_action(self, enemy) ==
    IF _can_attack(self, get_distance(self.position, enemy.position))
    THEN [self |-> self, action |-> "attack"]
    ELSE [self |-> [self EXCEPT !.remaining_movement = @ + self.speed],
          action |-> "dash"]

\* dice.roll_d20, for the two d20 it may roll
roll_d20(first, second, advantage, disadvantage) ==
    IF advantage THEN Max(first, second)
    ELSE IF disadvantage THEN Min(first, second)
    ELSE first

\* a roll_attack that spends one of the weapon whether or not it is fired or thrown
roll_attack_spending_any_weapon(self, weapon, thrown, rolled) ==
    LET modifier == IF self.attack_bonus # <<>> THEN self.attack_bonus[1]
                    ELSE _get_attack_modifier(self, self.weapons[weapon])
                         + (IF self.weapons[weapon].proficient
                            THEN self.proficiency ELSE 0)
    IN  [self |-> [self EXCEPT
                      !.attack_used = TRUE,
                      !.weapons_used_this_turn = @ \cup {self.weapons[weapon].name},
                      !.weapons[weapon].quantity = @ - 1],
         attack_roll |-> [total |-> rolled + modifier, rolled |-> rolled,
                          modifier |-> modifier, is_crit |-> rolled = 20]]

\* Creature.roll_attack: the creature afterwards and the AttackRoll, rolled being the
\* result of roll_d20
roll_attack(self, weapon, thrown, rolled) ==
    LET modifier == IF self.attack_bonus # <<>> THEN self.attack_bonus[1]
                    ELSE _get_attack_modifier(self, self.weapons[weapon])
                         + (IF self.weapons[weapon].proficient
                            THEN self.proficiency ELSE 0)
    IN  [self |-> [self EXCEPT
                      !.attack_used = TRUE,
                      !.weapons_used_this_turn = @ \cup {self.weapons[weapon].name},
                      !.weapons[weapon].quantity =
                          IF ~self.weapons[weapon].melee \/ thrown THEN @ - 1 ELSE @],
         attack_roll |-> [total |-> rolled + modifier, rolled |-> rolled,
                          modifier |-> modifier, is_crit |-> rolled = 20]]

\* _check_if_hits without its test of a natural 1
_check_if_hits_on_total(target, attack_roll) ==
    ~(attack_roll.total < target.ac /\ ~attack_roll.is_crit)

\* Encounter1v1._check_if_hits
_check_if_hits(target, attack_roll) ==
    ~(\/ attack_roll.total < target.ac /\ ~attack_roll.is_crit
      \/ attack_roll.rolled = 1)

\* the totals Creature.roll_damage can give for the weapon: the dice, doubled in number
\* on a crit, plus the attack modifier, not below 0
roll_damage(self, weapon, crit) ==
    {Max(rolled + _get_attack_modifier(self, self.weapons[weapon]), 0) :
        rolled \in roll(self.weapons[weapon].num_dice * (IF crit THEN 2 ELSE 1),
                        self.weapons[weapon].max_roll)}

\* Creature.get_damage_taken raises RuntimeError: it pops the damage type the creature
\* is immune to from the dictionary it iterates over
get_damage_taken_raises(self, damage_type) == damage_type \in self.immunities

\* Creature.get_damage_taken: the total of the damage taken
get_damage_taken(self, damage_type, amount) ==
    IF damage_type \in self.vulnerabilities THEN amount * 2
    ELSE IF damage_type \in self.resistances THEN amount \div 2
    ELSE amount

(***************************************************************************)
(* The record of a Creature operation kept in last.                        *)
(***************************************************************************)
Call(op, c, total_damage, crit, before, outcome) ==
    [op |-> op, creature |-> c, total_damage |-> total_damage, crit |-> crit,
     hp_before |-> before.hp,
     dying_before |-> "dying" \in before.conditions,
     failures_before |-> before.death_saves.failures,
     outcome |-> outcome, weapon |-> 0, thrown |-> FALSE]

NoCall ==
    [op |-> "none", creature |-> 0, total_damage |-> 0, crit |-> FALSE,
     hp_before |-> 0, dying_before |-> FALSE, failures_before |-> 0,
     outcome |-> "none", weapon |-> 0, thrown |-> FALSE]

\* an operation that returns nothing the model reads
Done(op, c) == [NoCall EXCEPT !.op = op, !.creature = c]

\* the record of an operation of an attack made with the weapon, thrown or not
WithWeapon(call, weapon, thrown) == [call EXCEPT !.weapon = weapon, !.thrown = thrown]

\* no attack is between its take_damage and its traits
NoAttack == [weapon |-> 0, total |-> 0, from_crit |-> FALSE, radiant |-> FALSE]

\* run_encounter has not returned: winner is the id of the creature returned (0 for
\* None), error the exception that ended the run
NoResult == [winner |-> 0, error |-> "none"]

\* the AttackDamage handed to the post-damage traits
AttackDamage(total, from_crit, radiant) ==
    [total |-> total, from_crit |-> from_crit, radiant |-> radiant]

\* the d20 values start_turn can roll for self: it rolls only if self is dying
\* (0 stands for no roll)
DeathSaveRolls(self) == IF "dying" \in self.conditions THEN D20 ELSE {0}

\* the d20 values the post-damage traits of self can roll for a saving throw: Undead
\* Fortitude rolls only when it gets to the save (0 stands for no roll)
SaveRolls(self, damage, damage_result) ==
    IF /\ "undead_fortitude" \in self.traits
       /\ damage_result \in {"knocked_out", "dead"}
       /\ ~damage.from_crit
       /\ ~damage.radiant
    THEN D20 ELSE {0}


(***************************************************************************)
(* Encounter1v1: the attack modifiers, the on-hit weapon traits and the    *)
(* condition ledger of Battle.  An entry of the ledger is the condition    *)
(* and the creature that caused it (0 for None).  With one creature a side *)
(* no creature trait changes an attack or damage roll: Pack Tactics and    *)
(* Martial Advantage find no ally, and the membership test of Grappler     *)
(* compares a Condition with the TempCondition entries and never holds.    *)
(***************************************************************************)
\* take_turn: the other creature of the encounter
enemy_of(creature) == IF creature = 1 THEN 2 ELSE 1

\* the conditions in the ledger entries of a creature
ledger_conditions(entries) == {entries[k].condition : k \in DOMAIN entries}

\* _get_attack_modifiers: position_modifiers
position_modifiers(attack, distance) ==
    IF distance <= 5
    THEN IF ~attack.melee THEN {"disadvantage"} ELSE {}
    ELSE IF attack.range # <<>> /\ attack.range[1] < distance /\ distance <= attack.range[2]
    THEN {"disadvantage"}
    ELSE {}

\* _get_attack_modifiers: attacker_condition_modifiers
attacker_condition_modifiers(attacker, conditions) ==
    (IF conditions \cap {"invisible", "unseen"} # {} THEN {"advantage"} ELSE {})
    \cup (IF conditions \cap {"prone", "poisoned", "frightened"} # {}
          THEN {"disadvantage"} ELSE {})
    \cup (IF "blinded" \in conditions /\ attacker.senses = {}
          THEN {"disadvantage"} ELSE {})

\* _get_attack_modifiers: target_condition_modifiers
target_condition_modifiers(target, conditions, distance) ==
    (IF conditions \cap {"invisible", "unseen"} # {} THEN {"disadvantage"} ELSE {})
    \cup (IF "blinded" \in conditions /\ target.senses = {} THEN {"advantage"} ELSE {})
    \cup (IF "prone" \in conditions
          THEN (IF distance <= 5 THEN {"advantage"} ELSE {"disadvantage"}) ELSE {})
    \cup (IF conditions \cap {"restrained", "stunned", "petrified", "paralyzed",
                              "unconscious"} # {}
          THEN {"advantage"} ELSE {})

\* Encounter1v1._get_attack_modifiers: the keys of the modifiers it returns, and auto_crit
_get_attack_modifiers(attack, attacker, target, temp_conditions, a, t) ==
    LET distance == get_distance(attacker.position, target.position)
        modifiers ==
            position_modifiers(attack, distance)
            \cup attacker_condition_modifiers(attacker, ledger_conditions(temp_conditions[a]))
            \cup target_condition_modifiers(target, ledger_conditions(temp_conditions[t]),
                                            distance)
    IN  [advantage |-> "advantage" \in modifiers,
         disadvantage |-> "disadvantage" \in modifiers,
         auto_crit |-> ledger_conditions(temp_conditions[t])
                           \cap {"paralyzed", "unconscious"} # {}]

\* the exception _get_attack_modifiers raises, "none" if it returns: ValueError beyond
\* the long range, TypeError from iterating over traits that are None, AttributeError
\* from Lance's get_distance of two creatures
_get_attack_modifiers_raises(attack, attacker, target) ==
    LET distance == get_distance(attacker.position, target.position)
    IN  IF distance > 5 /\ attack.range # <<>> /\ distance > attack.range[2]
        THEN "ValueError"
        ELSE IF attack.traits = <<>> THEN "TypeError"
        ELSE IF "lance" \in attack.traits[1] THEN "AttributeError"
        ELSE "none"

\* rules.Size, in order
SizeOrder == <<"tiny", "small", "medium", "large", "huge", "gargantuan">>

\* size <= other
size_le(size, other) ==
    \E i, j \in DOMAIN SizeOrder : SizeOrder[i] = size /\ SizeOrder[j] = other /\ i <= j

\* Encounter1v1._apply_weapon_hit_traits: the TempConditions of Adhesive and Net
_apply_weapon_hit_traits(attack, attacker, target, a) ==
    IF attack.traits = <<>> THEN <<>>
    ELSE (IF "adhesive" \in attack.traits[1] /\ size_le(target.size, "huge")
          THEN <<[condition |-> "grappled", caused_by |-> a]>> ELSE <<>>)
         \o (IF "net" \in attack.traits[1] /\ size_le(target.size, "large")
             THEN <<[condition |-> "restrained", caused_by |-> 0]>> ELSE <<>>)

\* an add_condition that appends whatever the ledger holds
add_condition_again(entries, condition) == Append(entries, condition)

\* Battle.add_condition, to the ledger entries of the condition's target
add_condition(entries, condition) ==
    IF \E k \in DOMAIN entries : entries[k] = condition
    THEN entries
    ELSE Append(entries, condition)

RECURSIVE add_conditions(_, _, _)
\* attack: "for condition in conditions: self.battle.add_condition(condition)"
add_conditions(entries, conditions, k) ==
    IF k > Len(conditions) THEN entries
    ELSE add_conditions(add_condition(entries, conditions[k]), conditions, k + 1)

\* the ledger after the on-hit traits of the weapon that hit creature t
weapon_effects(temp_conditions, attack, attacker, target, a, t) ==
    [temp_conditions EXCEPT
        ![t] = add_conditions(@, _apply_weapon_hit_traits(attack, attacker, target, a), 1)]

\* a roll_initiative that keeps the order of self.creatures
roll_initiative_as_listed(initiative1, initiative2) == <<1, 2>>

\* Encounter1v1.roll_initiative: sorted by initiative, highest first, ties in the order
\* of self.creatures
roll_initiative(initiative1, initiative2) ==
    IF initiative2 > initiative1 THEN <<2, 1>> ELSE <<1, 2>>

(***************************************************************************)
(* SpecCreature: a caller applies the public operations of Creature, in    *)
(* any order, to creature 1; creature 2 holds the copy spawn() returns.    *)
(***************************************************************************)
InitCreature ==
    /\ \E c \in CreatureInputs : creatures = [i \in Creatures |-> c]
    /\ last = NoCall
    /\ pc = "not_started"
    /\ battle = [round |-> 0, temp_conditions |-> [i \in Creatures |-> <<>>]]
    /\ initiative = <<>>
    /\ turn = 0
    /\ attacks_made = 0
    /\ max_rounds = 0
    /\ pending = NoAttack
    /\ result = NoResult

\* target.take_damage(damage, crit)
TakeDamage(c) ==
    \E total_damage \in 0..MaxDamage, crit \in BOOLEAN :
        LET taken == take_damage(creatures[c], total_damage, crit)
        IN  /\ creatures[c].death_saves.failures < MaxFailures
            /\ creatures' = [creatures EXCEPT ![c] = taken.self]
            /\ last' = Call("take_damage", c, total_damage, crit, creatures[c],
                            taken.outcome)
            /\ UNCHANGED encounter_vars

\* the post-damage traits of the creature, run on the outcome of the take_damage
\* that was just made, as Encounter1v1.attack does; the AttackDamage they get is the
\* damage before resistances, here the damage taken or its double
PostDamageTraits(c) ==
    \E total \in {last.total_damage, 2 * last.total_damage}, radiant \in BOOLEAN :
      \E save \in SaveRolls(creatures[c], AttackDamage(total, last.crit, radiant),
                            last.outcome) :
        LET reacted == _apply_post_damage_traits(
                           creatures[c], AttackDamage(total, last.crit, radiant),
                           last.outcome, save)
        IN  /\ last.op = "take_damage"
            /\ last.creature = c
            /\ last.total_damage > 0
            /\ creatures' = [creatures EXCEPT ![c] = reacted.self]
            /\ last' = Call("post_damage_traits", c, total, last.crit, creatures[c],
                            reacted.outcome)
            /\ UNCHANGED encounter_vars

\* creature.heal(amount, wake_up)
Heal(c) ==
    \E amount \in 1..MaxHP, wake_up \in BOOLEAN :
        /\ creatures' = [creatures EXCEPT ![c] = heal(creatures[c], amount, wake_up)]
        /\ last' = Done("heal", c)
        /\ UNCHANGED encounter_vars

\* creature.start_turn()
StartTurn(c) ==
    \E death_save \in DeathSaveRolls(creatures[c]) :
        /\ creatures' = [creatures EXCEPT ![c] = start_turn(creatures[c], death_save)]
        /\ last' = Done("start_turn", c)
        /\ UNCHANGED encounter_vars

\* creatures[2] = creatures[1].spawn()
Spawn ==
    \E rolled \in roll(creatures[1].num_hit_die, creatures[1].hit_die),
       death_save \in DeathSaveRolls(creatures[1]) :
        /\ creatures' = [creatures EXCEPT ![2] = spawn(creatures[1], rolled, death_save)]
        /\ last' = Done("spawn", 2)
        /\ UNCHANGED encounter_vars

NextCreature ==
    \/ TakeDamage(1)
    \/ PostDamageTraits(1)
    \/ Heal(1)
    \/ StartTurn(1)
    \/ Spawn

SpecCreature == InitCreature /\ [][NextCreature]_vars


(***************************************************************************)
(* Spec: one run of Encounter1v1.run_encounter(max_rounds) for two         *)
(* creatures a caller has constructed, with their traits attached.  pc is  *)
(* "take_turn" before a call of take_turn, "attack" before an iteration of *)
(* the loop of attack, "post_damage" between the take_damage of a hit and  *)
(* the target's post-damage traits, "returned" once run_encounter has      *)
(* returned and "raised" once an exception has ended it.  encounter.py     *)
(* unpacks a pair from choose_movement and from get_damage_taken; the      *)
(* model gives it the position and the damage that creature.py returns.    *)
(***************************************************************************)
\* where run_encounter is
Control ==
    [pc |-> pc, turn |-> turn, attacks_made |-> attacks_made, round |-> battle.round,
     result |-> result]

\* run_encounter returns the creature winner, or None for 0
returned(control, winner) ==
    [control EXCEPT !.pc = "returned", !.result = [winner |-> winner, error |-> "none"]]

\* an exception ends run_encounter
raised(control, error) ==
    [control EXCEPT !.pc = "raised", !.result = [winner |-> 0, error |-> error]]

\* run_encounter: the test of its while loop, then the first turn of the round
while_no_creature_is_dead(control, new_creatures) ==
    IF \E c \in Creatures : "dead" \in new_creatures[c].conditions
    THEN returned(control, 0)
    ELSE [control EXCEPT !.pc = "take_turn", !.turn = 1, !.attacks_made = 0]

\* run_encounter, after every creature of the initiative has had its turn
end_of_round(control, new_creatures, rounds) ==
    IF control.round + 1 > rounds
    THEN returned([control EXCEPT !.round = @ + 1], 0)
    ELSE while_no_creature_is_dead([control EXCEPT !.round = @ + 1], new_creatures)

\* run_encounter, after take_turn returned a false value: the next creature of the
\* initiative, or the end of the round
turn_over(control, new_creatures, rounds) ==
    IF control.turn < Len(initiative)
    THEN [control EXCEPT !.pc = "take_turn", !.turn = @ + 1, !.attacks_made = 0]
    ELSE end_of_round(control, new_creatures, rounds)

\* a take_turn that hands on the value of attack() whatever became of the enemy
fight_won_never(enemy) == FALSE

\* take_turn, after attack(): "if Condition.dead in enemy.conditions: return True"
fight_won(enemy) == "dead" \in enemy.conditions

\* take_turn, after attack() returned (it returns None): True if the enemy is dead, and
\* run_encounter then returns the attacker
attack_over(control, new_creatures, attacker, rounds) ==
    IF fight_won(new_creatures[enemy_of(attacker)])
    THEN returned(control, attacker)
    ELSE turn_over(control, new_creatures, rounds)

\* attack: the end of an iteration of "for _ in range(attacker.num_attacks)"
next_attack(control, new_creatures, attacker, rounds) ==
    IF control.attacks_made + 1 < new_creatures[attacker].num_attacks
    THEN [control EXCEPT !.pc = "attack", !.attacks_made = @ + 1]
    ELSE attack_over(control, new_creatures, attacker, rounds)

\* an attack that also returns when the target has been knocked out
attack_returns_when_down(damage_outcome) ==
    damage_outcome \in {"dead", "instant_death", "knocked_out"}

\* attack: "if damage_outcome in {DamageOutcome.dead, DamageOutcome.instant_death}:
\* return"
attack_returns(damage_outcome) == damage_outcome \in {"dead", "instant_death"}

\* the control state and the ledger become those given
Goto(control, temp_conditions) ==
    /\ pc' = control.pc
    /\ turn' = control.turn
    /\ attacks_made' = control.attacks_made
    /\ result' = control.result
    /\ battle' = [round |-> control.round, temp_conditions |-> temp_conditions]

\* the melee and monster attacks of the modelled creatures
club == Weapon("club", TRUE, 1, 2 * MaxHP, "bludgeoning")

pseudopod ==
    [Weapon("pseudopod", TRUE, 1, 2, "bludgeoning") EXCEPT !.traits = <<{"adhesive"}>>]

sting == Weapon("sting", TRUE, 1, 1, "poison")

\* the arguments a caller constructs the creatures of an encounter with: with and
\* without death saves, Undead Fortitude, a second attack, an on-hit weapon trait, a
\* damage immunity and a vulnerability, and Martial Advantage
Combatants ==
    << DefaultArguments,
       [DefaultArguments EXCEPT !.make_death_saves = TRUE, !.attacks = <<club>>],
       [DefaultArguments EXCEPT !.make_death_saves = TRUE,
                                !.traits = {"undead_fortitude"}],
       [DefaultArguments EXCEPT !.num_attacks = 2, !.attacks = <<club>>],
       [DefaultArguments EXCEPT !.attacks = <<pseudopod>>, !.traits = {"grappler"}],
       [DefaultArguments EXCEPT !.attacks = <<sting>>, !.immunities = {"poison"},
                                !.vulnerabilities = {"bludgeoning"}],
       [DefaultArguments EXCEPT !.attacks = <<club>>,
                                !.traits = {"martial_advantage"}] >>

\* how far apart the two creatures start: on the same spot (the default position of
\* both), in melee range, and more than a move away
StartDistances == {0, 5, 65}

Init ==
    /\ \E creature1 \in DOMAIN Combatants, creature2 \in DOMAIN Combatants,
          distance \in StartDistances :
           \* the initiative decides who goes first, so every pair is set up once
           /\ creature1 <= creature2
           /\ creatures = [i \in Creatures |->
                              IF i = 1 THEN Creature_init(Combatants[creature1])
                              ELSE Creature_init([Combatants[creature2] EXCEPT
                                                     !.position = distance])]
    /\ last = NoCall
    /\ pc = "not_started"
    /\ battle = [round |-> 0, temp_conditions |-> [i \in Creatures |-> <<>>]]
    /\ initiative = <<>>
    /\ turn = 0
    /\ attacks_made = 0
    /\ max_rounds = 0
    /\ pending = NoAttack
    /\ result = NoResult

\* a take_turn that skips the turn of a dead creature only
gets_no_turn_when_dead(self) == "dead" \in self.conditions

\* take_turn: "Don't get a turn if have any of these conditions"
gets_no_turn(self) ==
    self.conditions \cap {"dead", "paralyzed", "petrified", "stunned", "unconscious"} # {}

\* run_encounter(max_rounds), up to the first call of take_turn
RunEncounter ==
    \E rounds \in 0..MaxRounds, rolled1 \in Faces, rolled2 \in Faces :
        /\ pc = "not_started"
        /\ max_rounds' = rounds
        /\ initiative' = roll_initiative(
                             rolled1 + get_modifier(creatures[1].abilities, "dex"),
                             rolled2 + get_modifier(creatures[2].abilities, "dex"))
        /\ Goto(while_no_creature_is_dead([Control EXCEPT !.round = 1], creatures),
                battle.temp_conditions)
        /\ UNCHANGED <<creatures, last, pending>>

\* take_turn(creature), up to the call of attack() or to its return
TakeTurn ==
    /\ pc = "take_turn"
    /\ \E death_save \in DeathSaveRolls(creatures[initiative[turn]]) \cap ({0} \cup Faces) :
        LET creature == initiative[turn]
            started == start_turn(creatures[creature], death_save)
            enemy == creatures[enemy_of(creature)]
            chosen == choose_action(started, enemy)
            new_position == choose_movement(chosen.self, enemy)
            after(self) == [creatures EXCEPT ![creature] = self]
        IN  /\ last' = Done("start_turn", creature)
            /\ UNCHANGED <<initiative, max_rounds, pending>>
            /\ IF "dead" \in started.conditions
               THEN \* "return enemy", which run_encounter takes for fight_won
                    /\ creatures' = after(started)
                    /\ Goto(returned(Control, creature), battle.temp_conditions)
               ELSE IF gets_no_turn(started)
               THEN /\ creatures' = after(started)
                    /\ Goto(turn_over(Control, after(started), max_rounds),
                            battle.temp_conditions)
               ELSE IF chosen.action = "attack"
               THEN /\ creatures' = after(chosen.self)
                    /\ Goto(IF chosen.self.num_attacks > 0
                            THEN [Control EXCEPT !.pc = "attack", !.attacks_made = 0]
                            ELSE attack_over(Control, after(chosen.self), creature,
                                             max_rounds),
                            battle.temp_conditions)
               ELSE IF choose_movement_raises(chosen.self, enemy) # "none"
               THEN /\ creatures' = after(chosen.self)
                    /\ Goto(raised(Control, choose_movement_raises(chosen.self, enemy)),
                            battle.temp_conditions)
               ELSE IF new_position = <<>>
               THEN \* log_movement: get_distance(None, target.position)
                    /\ creatures' = after(chosen.self)
                    /\ Goto(raised(Control, "AttributeError"), battle.temp_conditions)
               ELSE /\ creatures' = after(move(chosen.self, new_position[1]))
                    /\ Goto(turn_over(Control, after(move(chosen.self, new_position[1])),
                                      max_rounds),
                            battle.temp_conditions)

\* Encounter1v1._apply_damage_modifiers raises: it unpacks "attack_damage, applied"
\* from on_roll_damage of every OnRollDamageTrait of the attacker, and
\* MartialAdvantage.on_roll_damage returns the AttackDamage alone, which is not
\* iterable.  (With one creature a side get_allies is empty: the trait adds nothing and
\* leaves its last_used as it is.)
_apply_damage_modifiers_raises(attacker) ==
    IF "martial_advantage" \in attacker.traits THEN "TypeError" ELSE "none"

\* attack, steps 3 to 6 of an iteration: the attacker, moved, attacks creature t with
\* the weapon chosen, up to the take_damage of a hit or to the end of the iteration
AttackWith(a, t, attacker, weapon, thrown) ==
    LET target == creatures[t]
        attack == attacker.weapons[weapon]
        raises == _get_attack_modifiers_raises(attack, attacker, target)
        attack_modifiers == _get_attack_modifiers(attack, attacker, target,
                                                  battle.temp_conditions, a, t)
        two_dice == attack_modifiers.advantage \/ attack_modifiers.disadvantage
    IN  IF raises # "none"
        THEN /\ creatures' = [creatures EXCEPT ![a] = attacker]
             /\ last' = WithWeapon(Done("_get_attack_modifiers", a), weapon, thrown)
             /\ Goto(raised(Control, raises), battle.temp_conditions)
             /\ UNCHANGED pending
        ELSE \E first \in Faces : \E second \in (IF two_dice THEN Faces ELSE {first}) :
            LET rolled == roll_attack(attacker, weapon, thrown,
                                      roll_d20(first, second, attack_modifiers.advantage,
                                               attack_modifiers.disadvantage))
                attack_roll == rolled.attack_roll
                crit == attack_roll.is_crit \/ attack_modifiers.auto_crit
                missed == [creatures EXCEPT ![a] = rolled.self]
            IN  IF ~_check_if_hits(target, attack_roll)
                THEN /\ creatures' = missed
                     /\ last' = WithWeapon(Done("roll_attack", a), weapon, thrown)
                     /\ Goto(next_attack(Control, missed, a, max_rounds),
                             battle.temp_conditions)
                     /\ UNCHANGED pending
                ELSE IF _apply_damage_modifiers_raises(rolled.self) # "none"
                THEN /\ creatures' = missed
                     /\ last' = WithWeapon(Done("roll_attack", a), weapon, thrown)
                     /\ Goto(raised(Control, _apply_damage_modifiers_raises(rolled.self)),
                             battle.temp_conditions)
                     /\ UNCHANGED pending
                ELSE IF get_damage_taken_raises(target, attack.damage_type)
                THEN /\ creatures' = missed
                     /\ last' = WithWeapon(Done("roll_attack", a), weapon, thrown)
                     /\ Goto(raised(Control, "RuntimeError"), battle.temp_conditions)
                     /\ UNCHANGED pending
                ELSE \E amount \in roll_damage(rolled.self, weapon, crit) :
                    LET damage_taken == get_damage_taken(target, attack.damage_type,
                                                         amount)
                        hit == take_damage(target, damage_taken, attack_roll.is_crit)
                    IN  IF damage_taken > 0
                        THEN /\ creatures' = [missed EXCEPT ![t] = hit.self]
                             /\ last' = WithWeapon(
                                            Call("take_damage", t, damage_taken,
                                                 attack_roll.is_crit, target,
                                                 hit.outcome),
                                            weapon, thrown)
                             /\ pending' = [weapon |-> weapon, total |-> amount,
                                            from_crit |-> crit,
                                            radiant |-> attack.damage_type = "radiant"]
                             /\ Goto([Control EXCEPT !.pc = "post_damage"],
                                     battle.temp_conditions)
                        ELSE /\ creatures' = missed
                             /\ last' = WithWeapon(Done("roll_attack", a), weapon, thrown)
                             /\ Goto(next_attack(Control, missed, a, max_rounds),
                                     weapon_effects(battle.temp_conditions, attack,
                                                    rolled.self, target, a, t))
                             /\ UNCHANGED pending

\* attack, steps 1 and 2 of an iteration: the attacker moves and chooses its weapon,
\* then goes on with steps 3 to 6
Attack ==
    LET a == initiative[turn]
        t == enemy_of(a)
        new_position == choose_movement(creatures[a], creatures[t])
        attacker == IF new_position # <<>> THEN move(creatures[a], new_position[1])
                    ELSE creatures[a]
        distance == get_distance(attacker.position, creatures[t].position)
    IN  /\ pc = "attack"
        /\ UNCHANGED <<initiative, max_rounds>>
        /\ IF choose_movement_raises(creatures[a], creatures[t]) # "none"
           THEN /\ Goto(raised(Control, choose_movement_raises(creatures[a], creatures[t])),
                        battle.temp_conditions)
                /\ UNCHANGED <<creatures, last, pending>>
           ELSE IF choose_attack_raises(attacker, distance) # "none"
           THEN /\ creatures' = [creatures EXCEPT ![a] = attacker]
                /\ Goto(raised(Control, choose_attack_raises(attacker, distance)),
                        battle.temp_conditions)
                /\ UNCHANGED <<last, pending>>
           ELSE \E plan \in choose_attack(attacker, distance) :
                    AttackWith(a, t, attacker, plan[1], plan[2])

\* attack, after the take_damage of a hit: the target's post-damage traits, the early
\* return on a kill, else the on-hit traits of the weapon and the end of the iteration
ApplyPostDamageTraits ==
    /\ pc = "post_damage"
    /\ LET t == last.creature
            a == enemy_of(t)
            attack_damage == AttackDamage(pending.total, pending.from_crit, pending.radiant)
        IN  \E save \in SaveRolls(creatures[t], attack_damage, last.outcome) \cap ({0} \cup Faces) :
                LET reacted == _apply_post_damage_traits(creatures[t], attack_damage,
                                                         last.outcome, save)
                    after == [creatures EXCEPT ![t] = reacted.self]
                IN  /\ creatures' = after
                    /\ last' = Call("post_damage_traits", t, pending.total, last.crit,
                                    creatures[t], reacted.outcome)
                    /\ pending' = NoAttack
                    /\ UNCHANGED <<initiative, max_rounds>>
                    /\ IF attack_returns(reacted.outcome)
                       THEN Goto(attack_over(Control, after, a, max_rounds),
                                 battle.temp_conditions)
                       ELSE Goto(next_attack(Control, after, a, max_rounds),
                                 weapon_effects(battle.temp_conditions,
                                                creatures[a].weapons[pending.weapon],
                                                creatures[a], reacted.self, a, t))

Next ==
    \/ RunEncounter
    \/ TakeTurn
    \/ Attack
    \/ ApplyPostDamageTraits

Spec == Init /\ [][Next]_vars


(***************************************************************************)
(* SpecAttack: a caller resolves one attack roll, or one damage roll, of   *)
(* creature 1 on creature 2 with the methods Encounter1v1.attack strings   *)
(* together, for any weapon of the attacker, any d20 and any conditions in *)
(* the ledger, as tests/test_traits.py does for the on-hit traits.  pc is  *)
(* "resolve_attack" until the roll is made.                                *)
(***************************************************************************)
\* a ranged weapon with ammunition: normal range 30 ft, long range 60 ft
shortbow ==
    [Weapon("shortbow", FALSE, 1, 2, "piercing") EXCEPT
        !.range = <<30, 60>>, !.ammunition = TRUE, !.quantity = 2]

\* the arguments of the attackers: a melee weapon with the default modifier, a ranged
\* weapon with an attack bonus, and the Grappler trait with an adhesive weapon
Attackers ==
    { [DefaultArguments EXCEPT !.attacks = <<club>>],
      [DefaultArguments EXCEPT !.attacks = <<shortbow>>, !.attack_bonus = <<5>>],
      [DefaultArguments EXCEPT !.attacks = <<pseudopod>>, !.traits = {"grappler"},
                               !.abilities = [str |-> 16, dex |-> 10, con |-> 10]] }

\* the arguments of the targets: an armour class below, among and above the totals a
\* d20 can give, with and without immunities, resistances and vulnerabilities
Targets ==
    { [DefaultArguments EXCEPT !.ac = 5],
      [DefaultArguments EXCEPT !.ac = 12, !.immunities = {"poison"},
                               !.resistances = {"poison", "piercing"},
                               !.vulnerabilities = {"bludgeoning"}],
      [DefaultArguments EXCEPT !.ac = 30, !.size = "gargantuan",
                               !.resistances = {"bludgeoning"},
                               !.vulnerabilities = {"piercing", "bludgeoning"}] }

\* how far the target stands: in melee range, at the long range of the shortbow, and
\* beyond it
AttackDistances == {5, 60, 65}

\* the ledger entries the attacker and the target start with
AttackerEntries ==
    { <<>>,
      <<[condition |-> "invisible", caused_by |-> 0]>>,
      <<[condition |-> "prone", caused_by |-> 0]>> }

TargetEntries ==
    { <<>>,
      <<[condition |-> "restrained", caused_by |-> 0]>>,
      <<[condition |-> "invisible", caused_by |-> 0]>>,
      <<[condition |-> "paralyzed", caused_by |-> 0]>> }

\* the AttackDamage.damages a damage roll can give: <<amount, damage type>> for every
\* key of the dictionary, in the order of its keys
DamagesRolled ==
    { <<>> }
    \cup { <<<<amount, type>>>> :
             amount \in {1, 3}, type \in {"bludgeoning", "piercing", "poison"} }
    \cup { << <<amount, type>>, <<bonus, "poison">> >> :
             amount \in {1, 3}, type \in {"bludgeoning", "piercing"}, bonus \in {1, 3} }

\* TempCondition.__eq__: False for anything that is not a TempCondition
TempCondition_eq(self, other_is_TempCondition, other) ==
    IF ~other_is_TempCondition THEN FALSE
    ELSE self.condition = other.condition /\ self.caused_by = other.caused_by

\* TempCondition.check_if_condition_ended(temp_conditions) of an entry of the ledger
\* of target: each entry of the target's ledger, a TempCondition, is looked up in
\* end_on_target_conditions (Condition.dead, Condition.incapacitated), and each entry
\* of the causer's ledger in end_on_causer_conditions (empty)
check_if_condition_ended(self, target, temp_conditions) ==
    \/ \E k \in DOMAIN temp_conditions[target] :
           \E ending \in {"dead", "incapacitated"} :
               TempCondition_eq(temp_conditions[target][k], FALSE, ending)
    \/ /\ self.caused_by # 0
       /\ \E k \in DOMAIN temp_conditions[self.caused_by] :
              \E ending \in {} :
                  TempCondition_eq(temp_conditions[self.caused_by][k], FALSE, ending)

\* Grappler.on_roll_attack returns {"advantage": True}: Condition.grappled is in the
\* list of TempConditions the ledger holds for the creature that attacks
Grappler_on_roll_attack(temp_conditions, creature) ==
    \E k \in DOMAIN temp_conditions[creature] :
        TempCondition_eq(temp_conditions[creature][k], FALSE, "grappled")

\* _get_attack_modifiers, the loop over attacker.traits: the traits whose on_roll_attack
\* returns something true.  Pack Tactics finds no ally in an encounter of two
attacker_modifiers(attacker, temp_conditions, a) ==
    {trait \in attacker.traits :
        trait = "grappler" /\ Grappler_on_roll_attack(temp_conditions, a)}

\* Creature.get_damage_taken raises RuntimeError, for the damages of an AttackDamage
get_damage_taken_of_raises(self, damages) ==
    \E k \in DOMAIN damages : get_damage_taken_raises(self, damages[k][2])

\* Creature.get_damage_taken, for the damages of an AttackDamage: <<damage type,
\* amount>> for every key of the dictionary it returns
get_damage_taken_of(self, damages) ==
    [k \in DOMAIN damages |->
        <<damages[k][2], get_damage_taken(self, damages[k][2], damages[k][1])>>]

\* what the caller has seen of the attack roll
AttackRolled(weapon, thrown, before, target, raises, attack_modifiers, from_traits, first, second, attack_roll) ==
    [op |-> "roll_attack", creature |-> 1, weapon |-> weapon, thrown |-> thrown,
     quantity_before |-> before.weapons[weapon].quantity,
     raises |-> raises,
     advantage |-> attack_modifiers.advantage,
     disadvantage |-> attack_modifiers.disadvantage,
     auto_crit |-> attack_modifiers.auto_crit,
     from_traits |-> from_traits,
     first |-> first, second |-> second,
     rolled |-> attack_roll.rolled, modifier |-> attack_roll.modifier,
     ac |-> target.ac,
     hits |-> raises = "none" /\ _check_if_hits(target, attack_roll)]

\* no roll was made
NoAttackRoll == [total |-> 0, rolled |-> 0, modifier |-> 0, is_crit |-> FALSE]

InitAttack ==
    /\ \E attacker \in Attackers, target \in Targets, distance \in AttackDistances :
           creatures = [i \in Creatures |->
                           IF i = 1 THEN Creature_init(attacker)
                           ELSE Creature_init([target EXCEPT !.position = distance])]
    /\ \E entries1 \in AttackerEntries, entries2 \in TargetEntries :
           battle = [round |-> 1,
                     temp_conditions |-> [i \in Creatures |->
                                             IF i = 1 THEN entries1 ELSE entries2]]
    /\ last = NoCall
    /\ pc = "resolve_attack"
    /\ initiative = <<1, 2>>
    /\ turn = 1
    /\ attacks_made = 0
    /\ max_rounds = 1
    /\ pending = NoAttack
    /\ result = NoResult

\* conditions = _apply_weapon_hit_traits(weapon, attacker, target), and add_condition
\* for each of them
OnAttackHit ==
    \E weapon \in DOMAIN creatures[1].weapons :
        /\ pc = "resolve_attack"
        /\ last.op = "none"
        /\ battle' = [battle EXCEPT
                         !.temp_conditions =
                             weapon_effects(@, creatures[1].weapons[weapon],
                                            creatures[1], creatures[2], 1, 2)]
        /\ last' = Done("on_attack_hit", 1)
        /\ UNCHANGED <<creatures, pc, initiative, turn, attacks_made, max_rounds,
                       pending, result>>

\* attack, steps 3 and 4: _get_attack_modifiers, roll_attack with the modifiers as
\* keyword arguments, and _check_if_hits
RollAttack ==
    \E weapon \in DOMAIN creatures[1].weapons, thrown \in BOOLEAN :
        LET attack == creatures[1].weapons[weapon]
            from_traits == attacker_modifiers(creatures[1], battle.temp_conditions, 1)
            \* a modifier that is a dictionary cannot be the key of the merged modifiers
            raises == IF _get_attack_modifiers_raises(attack, creatures[1],
                                                      creatures[2]) # "none"
                      THEN _get_attack_modifiers_raises(attack, creatures[1],
                                                        creatures[2])
                      ELSE IF from_traits # {} THEN "TypeError"
                      ELSE "none"
            attack_modifiers == _get_attack_modifiers(attack, creatures[1], creatures[2],
                                                      battle.temp_conditions, 1, 2)
            two_dice == attack_modifiers.advantage \/ attack_modifiers.disadvantage
        IN  /\ pc = "resolve_attack"
            /\ pc' = "attack_rolled"
            /\ UNCHANGED <<battle, initiative, turn, attacks_made, max_rounds, pending,
                           result>>
            /\ IF raises # "none"
               THEN /\ last' = AttackRolled(weapon, thrown, creatures[1], creatures[2],
                                            raises, attack_modifiers, from_traits, 0, 0,
                                            NoAttackRoll)
                    /\ UNCHANGED creatures
               ELSE \E first \in D20 :
                    \E second \in (IF two_dice THEN Faces ELSE {first}) :
                        LET rolled == roll_attack(
                                          creatures[1], weapon, thrown,
                                          roll_d20(first, second,
                                                   attack_modifiers.advantage,
                                                   attack_modifiers.disadvantage))
                        IN  /\ creatures' = [creatures EXCEPT ![1] = rolled.self]
                            /\ last' = AttackRolled(weapon, thrown, creatures[1],
                                                    creatures[2], "none",
                                                    attack_modifiers, from_traits,
                                                    first, second, rolled.attack_roll)

\* attack, step 5 after roll_damage: target.get_damage_taken(damage)
GetDamageTaken ==
    \E damages \in DamagesRolled :
        LET raises == get_damage_taken_of_raises(creatures[2], damages)
        IN  /\ pc = "resolve_attack"
            /\ pc' = "damage_taken"
            /\ last' = [op |-> "get_damage_taken", creature |-> 2,
                        damages |-> damages,
                        raises |-> IF raises THEN "RuntimeError" ELSE "none",
                        taken |-> IF raises THEN <<>>
                                  ELSE get_damage_taken_of(creatures[2], damages)]
            /\ UNCHANGED <<creatures, battle, initiative, turn, attacks_made,
                           max_rounds, pending, result>>

NextAttack ==
    \/ OnAttackHit
    \/ RollAttack
    \/ GetDamageTaken

SpecAttack == InitAttack /\ [][NextAttack]_vars


(***************************************************************************)
(* SpecRanged: run_encounter as in Spec, for creatures that fight at a     *)
(* distance: with a ranged weapon and its ammunition, a weapon to throw,   *)
(* a reach weapon, and more attacks than weapons.                          *)
(***************************************************************************)
\* a melee weapon with reach
glaive == [Weapon("glaive", TRUE, 1, 2, "slashing") EXCEPT !.reach = TRUE]

\* a melee weapon that can be thrown: normal range 30 ft, long range 60 ft
javelin ==
    [Weapon("javelin", TRUE, 1, 2, "piercing") EXCEPT
        !.thrown = TRUE, !.range = <<30, 60>>]

\* a light melee weapon that can be thrown: normal range 20 ft, long range 60 ft
dagger ==
    [Weapon("dagger", TRUE, 1, 1, "piercing") EXCEPT
        !.thrown = TRUE, !.range = <<20, 60>>, !.finesse = TRUE]

\* the arguments of the creatures of SpecRanged
Skirmishers ==
    << [DefaultArguments EXCEPT !.attacks = <<shortbow>>],
       [DefaultArguments EXCEPT !.attacks = <<glaive>>],
       [DefaultArguments EXCEPT !.attacks = <<club, javelin>>],
       [DefaultArguments EXCEPT !.num_attacks = 2],
       [DefaultArguments EXCEPT !.num_attacks = 2, !.attacks = <<shortbow>>],
       [DefaultArguments EXCEPT !.attacks = <<club, dagger, shortbow>>] >>

\* how far apart the creatures of SpecRanged start: on the same spot (the default
\* position of both), within reach, within a move of the long range, and beyond the
\* long range even after a move
RangedDistances == {0, 10, 65, 100}

InitRanged ==
    /\ \E creature1 \in DOMAIN Skirmishers, creature2 \in DOMAIN Skirmishers,
          distance \in RangedDistances :
           /\ creature1 <= creature2
           /\ creatures = [i \in Creatures |->
                              IF i = 1 THEN Creature_init(Skirmishers[creature1])
                              ELSE Creature_init([Skirmishers[creature2] EXCEPT
                                                     !.position = distance])]
    /\ last = NoCall
    /\ pc = "not_started"
    /\ battle = [round |-> 0, temp_conditions |-> [i \in Creatures |-> <<>>]]
    /\ initiative = <<>>
    /\ turn = 0
    /\ attacks_made = 0
    /\ max_rounds = 0
    /\ pending = NoAttack
    /\ result = NoResult

SpecRanged == InitRanged /\ [][Next]_vars


(***************************************************************************)
(* SpecSpawn: a template creature, and the copies spawn() makes of it, as  *)
(* objects.  Here creatures[o] is the object o: self is the Creature as in *)
(* the other specifications, refs the identities of the mutable objects    *)
(* its attributes are bound to (the conditions set, the death_saves        *)
(* dictionary, the weapons list with its Attack objects, the               *)
(* weapons_used_this_turn set).  A method that changes such an object in   *)
(* place changes it for every creature bound to it; one that binds the     *)
(* attribute to a new object does not.  Object 1 is the template, which a  *)
(* caller has taken through a battle before it spawns the copies 2 and 3,  *)
(* as MultiEncounter1v1.run does for each encounter; pc is "template"      *)
(* until the first spawn, and turn counts the methods called on the object *)
(* that is acted on, the spawn of a copy being the first.                  *)
(***************************************************************************)
\* the objects: the template and two copies
Objects == {1, 2, 3}

\* the attributes of a Creature bound to mutable objects
Attributes == {"conditions", "death_saves", "weapons", "weapons_used_this_turn"}

\* the identities an object can have
Identities == 1..(Cardinality(Objects) + 1)

\* a new object for an attribute of o: an identity no other creature is bound to
new_object(objects, o, attribute) ==
    CHOOSE n \in Identities :
        /\ \A d \in DOMAIN objects : objects[d].refs[attribute] # n
        /\ \A m \in Identities :
               (\A d \in DOMAIN objects : objects[d].refs[attribute] # m) => n <= m

\* the same objects under the names that tell only which creatures share an object:
\* an object is named after the first creature bound to it
named_by_first(objects) ==
    [d \in DOMAIN objects |->
        [objects[d] EXCEPT
            !.refs = [a \in Attributes |->
                         CHOOSE e \in DOMAIN objects :
                             /\ objects[e].refs[a] = objects[d].refs[a]
                             /\ \A f \in DOMAIN objects :
                                    objects[f].refs[a] = objects[d].refs[a] => e <= f]]]

\* Creature.__init__: a creature bound to objects of its own
new_creature(self, o) == [self |-> self, refs |-> [a \in Attributes |-> o]]

\* copy.copy(objects[o]): the copy is bound to the objects of the original
shallow_copy(objects, o) == objects[o]

\* copy.deepcopy(objects[o]): every object the creature is bound to is copied
deepcopy(objects, o) ==
    [self |-> objects[o].self,
     refs |-> [a \in Attributes |-> new_object(objects, o, a)]]

\* a method has taken creature o from objects[o].self to after: the attributes in
\* rebound are bound to new objects, the others have changed in place
changed(objects, o, after, rebound) ==
    named_by_first(
        [d \in DOMAIN objects |->
            IF d = o
            THEN [self |-> after,
                  refs |-> [a \in Attributes |->
                               IF a \in rebound THEN new_object(objects, o, a)
                               ELSE objects[o].refs[a]]]
            ELSE [objects[d] EXCEPT
                     !.self = [f \in DOMAIN objects[d].self |->
                                  IF /\ f \in Attributes \ rebound
                                     /\ objects[d].refs[f] = objects[o].refs[f]
                                  THEN after[f] ELSE objects[d].self[f]]]])

\* the attributes start_turn binds to new objects: weapons_used_this_turn, and
\* death_saves when the death save calls _reset_death_saves
start_turn_rebinds(self, death_save) ==
    {"weapons_used_this_turn"}
    \cup (IF /\ "dying" \in self.conditions
             /\ roll_death_save(self, death_save).result
                    \in {"stabilised", "critical success"}
          THEN {"death_saves"} ELSE {})

\* Creature.spawn on the objects: the copy, made by deepcopy, becomes object o
spawn_object(objects, parent, o, rolled, death_save) ==
    LET new_creature_ == deepcopy(objects, parent)
        copied == named_by_first([objects EXCEPT ![o] = new_creature_])
        \* new hit points, on the copy itself
        rerolled == IF new_creature_.self.num_hit_die # 0
                    THEN [new_creature_.self EXCEPT
                             !.hp = _roll_hit_points(new_creature_.self, rolled),
                             !.max_hp = _roll_hit_points(new_creature_.self, rolled)]
                    ELSE [new_creature_.self EXCEPT !.hp = new_creature_.self.max_hp]
        started == changed(copied, o, start_turn(rerolled, death_save),
                           start_turn_rebinds(rerolled, death_save))
    IN  changed(started, o, spawn(objects[parent].self, rolled, death_save),
                {"conditions", "death_saves"})

\* the template creatures: an archer with two arrows, with death saves and hit dice
\* and without
Templates ==
    { Creature_init([DefaultArguments EXCEPT
                        !.attacks = <<shortbow>>, !.make_death_saves = m,
                        !.num_hit_die = IF m THEN 1 ELSE 0]) :
        m \in BOOLEAN }

\* the objects a step with pc = "template" acts on, and those it acts on afterwards
Actors == IF pc = "template" THEN {1} ELSE {2}

\* one more method is called on the object acted on
Called ==
    /\ turn < MaxCalls
    /\ turn' = turn + 1
    /\ UNCHANGED <<pc, battle, initiative, attacks_made, max_rounds, pending, result>>

InitSpawn ==
    /\ \E c \in Templates : creatures = [o \in Objects |-> new_creature(c, o)]
    /\ last = NoCall
    /\ pc = "template"
    /\ battle = [round |-> 0, temp_conditions |-> [i \in Creatures |-> <<>>]]
    /\ initiative = <<>>
    /\ turn = 0
    /\ attacks_made = 0
    /\ max_rounds = 0
    /\ pending = NoAttack
    /\ result = NoResult

\* creatures[o] = creatures[1].spawn()
SpawnCopy(o) ==
    \E rolled \in roll(creatures[1].self.num_hit_die, creatures[1].self.hit_die),
       death_save \in DeathSaveRolls(creatures[1].self) \cap ({0} \cup Faces) :
        /\ creatures' = spawn_object(creatures, 1, o, rolled, death_save)
        /\ last' = Done("spawn", o)
        /\ pc' = "spawned"
        /\ turn' = IF o \in {2} THEN 1 ELSE turn
        /\ UNCHANGED <<battle, initiative, attacks_made, max_rounds, pending, result>>

\* creatures[o].take_damage(damage, crit)
ObjectTakesDamage(o) ==
    \E total_damage \in {1, MaxHP}, crit \in BOOLEAN :
        /\ o \in Actors
        /\ creatures[o].self.death_saves.failures < MaxFailures
        /\ creatures' = changed(creatures, o,
                                take_damage(creatures[o].self, total_damage, crit).self,
                                {})
        /\ last' = Done("take_damage", o)
        /\ Called

\* creatures[o].start_turn()
ObjectStartsTurn(o) ==
    \E death_save \in DeathSaveRolls(creatures[o].self) \cap ({0} \cup Faces) :
        /\ o \in Actors
        /\ creatures' = changed(creatures, o, start_turn(creatures[o].self, death_save),
                                start_turn_rebinds(creatures[o].self, death_save))
        /\ last' = Done("start_turn", o)
        /\ Called

\* creatures[o].roll_attack(weapon) with a usable weapon
ObjectRollsAttack(o) ==
    \E k \in DOMAIN _usable_weapons(creatures[o].self, all_weapons(creatures[o].self),
                                    <<>>) :
        LET weapon == _usable_weapons(creatures[o].self,
                                      all_weapons(creatures[o].self), <<>>)[k]
        IN  /\ o \in Actors
            /\ creatures' = changed(creatures, o,
                                    roll_attack(creatures[o].self, weapon, FALSE, 10).self,
                                    {})
            /\ last' = WithWeapon(Done("roll_attack", o), weapon, FALSE)
            /\ Called

\* creatures[o].choose_action([enemy]) with the enemy 100 ft away
ObjectChoosesAction(o) ==
    /\ o \in Actors
    /\ creatures' = changed(creatures, o,
                            choose_action(creatures[o].self,
                                          [creatures[o].self EXCEPT !.position = @ + 100]
                                         ).self,
                            {})
    /\ last' = Done("choose_action", o)
    /\ Called

\* creatures[o].move(new_position)
ObjectMoves(o) ==
    \E new_position \in {0, 5} :
        /\ o \in Actors
        /\ new_position # creatures[o].self.position
        /\ creatures' = changed(creatures, o, move(creatures[o].self, new_position), {})
        /\ last' = Done("move", o)
        /\ Called

NextSpawn ==
    \/ \E o \in Objects \ {1} : SpawnCopy(o)
    \/ \E o \in Objects : \/ ObjectTakesDamage(o)
                          \/ ObjectStartsTurn(o)
                          \/ ObjectRollsAttack(o)
                          \/ ObjectChoosesAction(o)
                          \/ ObjectMoves(o)

SpecSpawn == InitSpawn /\ [][NextSpawn]_vars

(***************************************************************************)
(* SpecConstruct: a caller constructs one creature as test_init_creature   *)
(* does, Creature(hp = "NdM", abilities = [10, 11, 12, ...], cr = cr),     *)
(* without proficiency.  pending holds the arguments; a challenge rating   *)
(* is held as eight times its value, so that 1/8, 1/4 and 1/2 are 1, 2     *)
(* and 4.                                                                  *)
(***************************************************************************)
\* a proficiency bonus of cr // 4 + 2
proficiency_from_cr_itself(cr) == cr \div 32 + 2

\* Creature.__init__: proficiency = max(cr - 1, 0) // 4 + 2; the floor division of a
\* float by 4 is the floor of the quotient
proficiency_from_cr(cr) == Max(cr - 8, 0) \div 32 + 2

InitConstruct ==
    /\ creatures = <<>>
    /\ last = NoCall
    /\ pc = "arguments"
    /\ battle = [round |-> 0, temp_conditions |-> <<>>]
    /\ initiative = <<>>
    /\ turn = 0
    /\ attacks_made = 0
    /\ max_rounds = 0
    /\ \E num_hit_die \in 1..10, hit_die \in {6, 8, 10, 12, 20},
          cr \in {0, 1, 2, 4} \cup {8 * k : k \in 1..30} :
           pending = [num_hit_die |-> num_hit_die, hit_die |-> hit_die, cr |-> cr,
                      abilities |-> [str |-> 10, dex |-> 11, con |-> 12]]
    /\ result = NoResult

\* Creature(name, ac, hp, abilities, cr = cr): the hit points are rolled, the
\* proficiency bonus comes from the challenge rating
Construct ==
    /\ pc = "arguments"
    /\ \E rolled \in roll(pending.num_hit_die, pending.hit_die) :
           creatures' =
               <<Creature_init([DefaultArguments EXCEPT
                     !.hp = _roll_hit_points(pending, rolled),
                     !.num_hit_die = pending.num_hit_die,
                     !.hit_die = pending.hit_die,
                     !.abilities = pending.abilities,
                     !.proficiency = proficiency_from_cr(pending.cr)])>>
    /\ pc' = "constructed"
    /\ last' = Done("__init__", 1)
    /\ UNCHANGED <<battle, initiative, turn, attacks_made, max_rounds, pending, result>>

SpecConstruct == InitConstruct /\ [][Construct]_vars

(***************************************************************************)
(* SpecBatch: MultiEncounter1v1(creature1, creature2, num_runs).run().     *)
(* pending holds num_runs, the names of the two creatures and the dict     *)
(* wins; turn is the loop variable i, result what the last run_encounter   *)
(* returned or raised: any of the outcomes run_encounter has under Spec.   *)
(* pc is "run" inside the loop.                                            *)
(***************************************************************************)
\* the largest num_runs
MaxRuns == 5

InitBatch ==
    /\ creatures = <<>>
    /\ last = NoCall
    /\ pc = "run"
    /\ battle = [round |-> 0, temp_conditions |-> <<>>]
    /\ initiative = <<>>
    /\ turn = 0
    /\ attacks_made = 0
    /\ max_rounds = 10
    /\ \E num_runs \in 0..MaxRuns,
          names \in {<<"orc", "bullywug">>, <<"orc", "orc">>} :
           \* self.wins = {creature.name: 0 for creature in self.creatures}
           pending = [num_runs |-> num_runs, names |-> names,
                      wins |-> [name \in {names[1], names[2]} |-> 0]]
    /\ result = NoResult

\* MultiEncounter1v1.run: one pass of "for i in range(self.num_runs)", or its end
run ==
    /\ pc = "run"
    /\ UNCHANGED <<creatures, last, battle, initiative, attacks_made, max_rounds>>
    /\ IF turn >= pending.num_runs
       THEN pc' = "returned" /\ UNCHANGED <<turn, pending, result>>
       ELSE \/ \E error \in {"TypeError", "ValueError", "IndexError", "AttributeError",
                              "RuntimeError"} :
                  \* run_encounter raises, and so does run
                  /\ pc' = "raised"
                  /\ result' = [winner |-> 0, error |-> error]
                  /\ UNCHANGED <<turn, pending>>
            \/ \E winner \in {0} \cup Creatures :
                  /\ pc' = "run"
                  /\ turn' = turn + 1
                  /\ result' = [winner |-> winner, error |-> "none"]
                  /\ pending' =
                         [pending EXCEPT
                             !.wins =
                                 IF winner # 0
                                 THEN [@ EXCEPT ![pending.names[winner]] = @ + 1]
                                 ELSE IF "Stalemate" \notin DOMAIN @
                                 THEN @ @@ ("Stalemate" :> 1)
                                 ELSE [@ EXCEPT !["Stalemate"] = @ + 1]]

SpecBatch == InitBatch /\ [][run]_vars


(***************************************************************************)
(* Properties of Creature.take_damage, checked under SpecCreature.         *)
(***************************************************************************)
\* the creature the last operation acted on
LastCreature == creatures[last.creature]

\* the excess of the last damage over the hit points the creature had
LastExcess == Max(0, last.total_damage - last.hp_before)

\* C1: for every creature, in every state reachable through any sequence of
\* take_damage, heal, start_turn, post-damage traits and spawn: 0 <= hp <= max_hp, and
\* dead and dying are never both set.
C1_HpInRangeDeadXorDying ==
    \A c \in Creatures :
        /\ 0 <= creatures[c].hp
        /\ creatures[c].hp <= creatures[c].max_hp
        /\ ~({"dead", "dying"} \subseteq creatures[c].conditions)

\* C6: for every creature at HP H and every damage total D >= 0, after take_damage
\* the creature's HP equals max(0, H - D), whatever outcome is returned.
C6_HpAfterDamage ==
    last.op = "take_damage" =>
        LastCreature.hp = Max(0, last.hp_before - last.total_damage)

\* C6 witness: a take_damage whose damage exceeded the hit points left, floored at 0
C6_Witness ==
    /\ last.op = "take_damage"
    /\ last.hp_before > 0
    /\ last.total_damage > last.hp_before
    /\ LastCreature.hp = 0

\* C7: take_damage returns instant_death, and sets dead, exactly when
\* max(0, D - H) > M (strictly), whether or not the creature makes death saves or
\* was already dying.
C7_InstantDeathIffExcessAboveMax ==
    last.op = "take_damage" =>
        /\ (last.outcome = "instant_death") <=> (LastExcess > LastCreature.max_hp)
        /\ last.outcome = "instant_death" => "dead" \in LastCreature.conditions

\* C7 witness: a dying creature that makes death saves is killed outright, and
\* (in another state) an excess equal to max_hp is survived
C7_Witness ==
    /\ last.op = "take_damage"
    /\ last.outcome = "instant_death"
    /\ last.dying_before
    /\ LastCreature.make_death_saves
    /\ LastExcess = LastCreature.max_hp + 1

\* C8: a creature that does not make death saves and takes damage D >= its HP, short
\* of instant death, gets outcome dead, with dead set and neither dying nor
\* unconscious; it never gets knocked_out.
C8_NoDeathSavesDies ==
    (last.op = "take_damage" /\ ~LastCreature.make_death_saves) =>
        /\ last.outcome # "knocked_out"
        /\ (last.total_damage >= last.hp_before /\ ~(LastExcess > LastCreature.max_hp))
            => /\ last.outcome = "dead"
               /\ "dead" \in LastCreature.conditions
               /\ "dying" \notin LastCreature.conditions
               /\ "unconscious" \notin LastCreature.conditions

\* C8 witness: a living creature without death saves takes exactly its HP in damage
C8_Witness ==
    /\ last.op = "take_damage"
    /\ ~LastCreature.make_death_saves
    /\ last.hp_before > 0
    /\ last.total_damage = last.hp_before
    /\ last.outcome = "dead"

\* C10: a creature that is already dying and takes nonzero damage short of instant
\* death gains exactly 1 death-save failure (2 if critical) and no HP change; the
\* outcome is still_dying while the failures are below 3, and dead (dead set, dying
\* cleared) once they reach 3 or more.
C10_DyingHitAddsFailures ==
    (/\ last.op = "take_damage"
     /\ last.dying_before
     /\ last.total_damage > 0
     /\ last.outcome # "instant_death") =>
        LET failures == last.failures_before + (IF last.crit THEN 2 ELSE 1)
        IN  /\ LastCreature.death_saves.failures = failures
            /\ LastCreature.hp = last.hp_before
            /\ IF failures < 3
               THEN last.outcome = "still_dying"
               ELSE /\ last.outcome = "dead"
                    /\ "dead" \in LastCreature.conditions
                    /\ "dying" \notin LastCreature.conditions

\* C10 witness: a critical hit takes a dying creature from 1 failure to 3 and kills it
C10_Witness ==
    /\ last.op = "take_damage"
    /\ last.dying_before
    /\ last.crit
    /\ last.failures_before = 1
    /\ last.outcome = "dead"
    /\ LastCreature.death_saves.failures = 3


(***************************************************************************)
(* Properties of one run of Encounter1v1.run_encounter, checked under      *)
(* Spec.                                                                   *)
(***************************************************************************)
\* the creature at 0 hit points is dying (it makes death saves) or dead
DyingOrDead(self) ==
    \/ self.make_death_saves /\ "dying" \in self.conditions
    \/ "dead" \in self.conditions

\* the creature has stabilised: stable and unconscious, neither dying nor dead, with
\* its death-save tally reset
Stabilised(self) ==
    /\ self.make_death_saves
    /\ {"stable", "unconscious"} \subseteq self.conditions
    /\ self.conditions \cap {"dying", "dead"} = {}
    /\ self.death_saves = [successes |-> 0, failures |-> 0]

C3_DeadAtTurnStartOtherWins ==
    /\ (last.op = "start_turn" /\ "dead" \in creatures[last.creature].conditions) =>
           /\ pc = "returned"
           /\ result = [winner |-> enemy_of(last.creature), error |-> "none"]
    /\ (pc = "returned" /\ result.winner # 0) =>
           "dead" \notin creatures[result.winner].conditions

\* an attack, its post-damage traits applied, has left its target dead
TargetLeftDead ==
    /\ last.op = "post_damage_traits"
    /\ "dead" \in creatures[last.creature].conditions

\* C4: when an attack leaves the target with the dead condition, run_encounter returns
\* the attacker as winner, and nothing (turn, movement, attack, death save) is
\* performed after that attack.
C4_KillEndsEncounter ==
    /\ [](TargetLeftDead =>
              /\ pc = "returned"
              /\ result = [winner |-> enemy_of(last.creature), error |-> "none"])
    /\ [][~TargetLeftDead]_vars

\* C4 witness: a target that makes no death saves was hit for at least its hit points,
\* and run_encounter has returned the attacker
C4_Witness ==
    /\ TargetLeftDead
    /\ ~creatures[last.creature].make_death_saves
    /\ last.total_damage >= last.hp_before
    /\ pc = "returned"
    /\ result.winner = enemy_of(last.creature)

\* C5: run_encounter(max_rounds) ends with a defined outcome: no run ends in an
\* unhandled error, it returns None exactly when max_rounds complete rounds have been
\* played with no creature dead, and no turn of round max_rounds + 1 is taken.
C5_DefinedOutcome ==
    /\ pc # "raised"
    /\ (pc = "returned" /\ result.winner = 0) =>
           /\ battle.round = max_rounds + 1
           /\ \A c \in Creatures : "dead" \notin creatures[c].conditions
    /\ pc \in {"take_turn", "attack", "post_damage"} => battle.round <= max_rounds

\* C9: whenever a creature that makes death saves and is not already dying is reduced
\* to 0 hit points without instant death, the outcome is knocked_out, its hit points
\* are 0, dying and unconscious are set and its death-save tally is {0, 0}, in every
\* state of an encounter, also after an earlier reanimation or recovery.
C9_KnockedOutWithFreshTally ==
    ( /\ last.op = "take_damage"
      /\ LastCreature.make_death_saves
      /\ ~last.dying_before
      /\ last.total_damage >= last.hp_before
      /\ LastExcess <= LastCreature.max_hp ) =>
        /\ last.outcome = "knocked_out"
        /\ LastCreature.hp = 0
        /\ {"dying", "unconscious"} \subseteq LastCreature.conditions
        /\ LastCreature.death_saves = [successes |-> 0, failures |-> 0]

(***************************************************************************)
(* Properties of one attack roll and one damage roll, under SpecAttack.    *)
(***************************************************************************)
\* C11: an attack roll that has both a source of advantage and a source of
\* disadvantage is made with one d20: the result is the first die, neither the higher
\* nor the lower of two dice.
C11_AdvantageAndDisadvantageCancel ==
    (/\ last.op = "roll_attack"
     /\ last.raises = "none"
     /\ last.advantage
     /\ last.disadvantage)
    => last.rolled = last.first

\* C12: an attack with d20 r, modifier m against an armour class hits if and only if
\* (r + m >= AC and r # 1) or r = 20.
C12_HitsIffTotalReachesAcOrNatural20 ==
    (last.op = "roll_attack" /\ last.raises = "none")
    => (last.hits <=> \/ last.rolled + last.modifier >= last.ac /\ last.rolled # 1
                      \/ last.rolled = 20)

\* a natural 20 has hit an armour class its total does not reach
C12_Witness ==
    /\ last.op = "roll_attack"
    /\ last.raises = "none"
    /\ last.rolled = 20
    /\ last.rolled + last.modifier < last.ac
    /\ last.hits

\* what C18 states of the damage taken: <<damage type, amount>> for every component
\* that remains
claimed_damage_taken(self, damages) ==
    LET remaining == SelectSeq(damages, LAMBDA d : d[2] \notin self.immunities)
    IN  [k \in DOMAIN remaining |->
            <<remaining[k][2],
              IF remaining[k][2] \in self.vulnerabilities THEN remaining[k][1] * 2
              ELSE IF remaining[k][2] \in self.resistances THEN remaining[k][1] \div 2
              ELSE remaining[k][1]>>]

\* C18: get_damage_taken drops every component of a damage type the target is immune
\* to, doubles one it is vulnerable to, else halves (rounding down) one it is
\* resistant to, else leaves it unchanged; the damage applied is the sum of the
\* components that remain.
C18_DamageTakenPerComponent ==
    last.op = "get_damage_taken"
    => /\ last.raises = "none"
       /\ last.taken = claimed_damage_taken(creatures[2], last.damages)
       /\ SeqSum(last.taken, 1)
              = SeqSum(claimed_damage_taken(creatures[2], last.damages), 1)

\* C19: once the hit of an adhesive weapon has put the condition grappled, caused by
\* the attacker, in the ledger of a target that is Huge or smaller, an attacker with
\* the Grappler trait gets advantage, and no other modifier, on its next attack roll
\* against that target.
C19_GrapplerHasAdvantageOnGrappled ==
    (/\ last.op = "roll_attack"
     /\ "grappler" \in creatures[1].traits
     /\ size_le(creatures[2].size, "huge")
     /\ battle.temp_conditions[1] = <<>>
     /\ battle.temp_conditions[2] = <<[condition |-> "grappled", caused_by |-> 1]>>
     /\ get_distance(creatures[1].position, creatures[2].position) <= 5)
    => /\ last.raises = "none"
       /\ last.advantage
       /\ ~last.disadvantage
       /\ ~last.auto_crit

(***************************************************************************)
(* Properties of the attacks of an encounter, under SpecRanged.            *)
(***************************************************************************)
\* last is the record of an attack roll made in the step that led to this state
AttackRollMade ==
    /\ pc # "raised"
    /\ last.op \in {"roll_attack", "take_damage"}
    /\ last.weapon # 0

\* the creature that made the attack roll of last
LastAttacker == IF last.op = "take_damage" THEN enemy_of(last.creature) ELSE last.creature

\* the weapon of the attack roll of last
LastWeapon == creatures[LastAttacker].weapons[last.weapon]

\* how far apart the two creatures are
Distance == get_distance(creatures[1].position, creatures[2].position)

NoUsableWeapon ==
    /\ turn \in DOMAIN initiative
    /\ _usable_weapons(creatures[initiative[turn]],
                       all_weapons(creatures[initiative[turn]]), <<Distance>>) = <<>>

\* an attempt to attack has ended the run with the exception choose_attack raises when
\* it has no option
ChooseAttackRaised ==
    /\ pc = "raised"
    /\ result.error \in {"ValueError", "IndexError"}
    /\ last.op # "_get_attack_modifiers"
    /\ choose_movement_raises(creatures[initiative[turn]],
                              creatures[enemy_of(initiative[turn])]) = "none"

\* C14: an attempt to attack by a creature that has no usable weapon at its current
\* distance is skipped, and the encounter goes on without an error.
C14_NoUsableWeaponSkipsAttempt == ~(NoUsableWeapon /\ ChooseAttackRaised)

\* the step makes an attack roll of creature c with its weapon i
RollsAttackWith(c, i) ==
    /\ pc = "attack"
    /\ c = initiative[turn]
    /\ last'.op \in {"roll_attack", "take_damage"}
    /\ last'.weapon = i

\* what a step does to the quantity of weapon i of creature c
QuantityStep(c, i) ==
    LET weapon == creatures[c].weapons[i]
        quantity == creatures'[c].weapons[i].quantity
    IN  /\ quantity \in {weapon.quantity, weapon.quantity - 1}
        /\ quantity # weapon.quantity
           => /\ RollsAttackWith(c, i)
              /\ ~weapon.melee \/ last'.thrown
              /\ weapon.quantity >= 1
        /\ (RollsAttackWith(c, i) /\ last' # last)
           => /\ weapon.quantity >= 1
              /\ quantity = IF ~weapon.melee \/ last'.thrown
                            THEN weapon.quantity - 1 ELSE weapon.quantity

\* C15: the quantity of every weapon is at least 0 at all times; it changes only in
\* the roll_attack of its owner, by exactly -1 when the weapon is ranged or thrown and
\* not at all when a melee weapon is not thrown; a weapon of quantity 0 is never the
\* one an attack is made with.
C15_QuantityNeverNegative ==
    /\ [](\A c \in Creatures : \A i \in DOMAIN creatures[c].weapons :
             creatures[c].weapons[i].quantity >= 0)
    /\ [][\A c \in Creatures : \A i \in DOMAIN creatures[c].weapons :
             QuantityStep(c, i)]_vars

\* a creature that has used up a weapon has made an attack roll with another one
C15_Witness ==
    /\ AttackRollMade
    /\ \E i \in DOMAIN creatures[LastAttacker].weapons :
           /\ creatures[LastAttacker].weapons[i].quantity = 0
           /\ last.weapon # i

\* the best expected damage of the usable weapons of self at the distance (times 8)
BestDamageAt(self, distance) ==
    IF _get_expected_damages(self, all_weapons(self), <<distance>>) = <<>> THEN 0
    ELSE best_damage_of(_get_expected_damages(self, all_weapons(self), <<distance>>))

\* the best expected damage of self is that of a ranged weapon, both before and after
\* _get_expected_damages raises the weapons with traits to the best expected damage
BestOptionIsRanged(self) ==
    LET usable == _usable_weapons(self, all_weapons(self), <<>>)
        damage_of(i) == expected_damage_at(self, self.weapons[i], <<>>)
    IN  \E k \in DOMAIN usable :
            /\ ~self.weapons[usable[k]].melee
            /\ \A j \in DOMAIN usable : damage_of(usable[j]) <= damage_of(usable[k])

\* the distances beyond 5 ft that self can be at after a move
ReachableDistances(self) ==
    {d \in 6..(Distance + self.remaining_movement) :
        d >= Distance - self.remaining_movement}

\* the creature choose_movement is called on in a step of the creature whose turn it
\* is: as take_turn has left it when it dashes, as it is when it attacks
Mover ==
    IF pc = "take_turn" THEN creatures'[initiative[turn]] ELSE creatures[initiative[turn]]

\* C20: a creature whose best expected damage is that of a ranged weapon, more than
\* 5 ft from its enemy, does not move to within 5 ft of it, unless no distance it can
\* reach with its remaining movement has a better expected damage.
C20_RangedKeepsOutOfMelee ==
    [][(/\ pc \in {"take_turn", "attack"}
        /\ Distance > 5
        /\ Distance' <= 5
        /\ BestOptionIsRanged(Mover))
       => ~\E d \in ReachableDistances(Mover) :
              BestDamageAt(Mover, d) > BestDamageAt(Mover, Distance')]_vars

C17_CopiesAreIndependent ==
    [][\A d \in DOMAIN creatures :
           d # last'.creature => creatures'[d] = creatures[d]]_vars

\* a copy has used an arrow, moved or been knocked out, and the template, which was
\* dying with one arrow less when it was spawned, is as it was
C17_Witness ==
    /\ pc = "spawned"
    /\ last.creature = 2
    /\ last.op \in {"roll_attack", "take_damage", "move"}
    /\ creatures[2].self.weapons[1].quantity # creatures[1].self.weapons[1].quantity
    /\ creatures[2].self.conditions # creatures[1].self.conditions

(***************************************************************************)
(* Properties of Creature.__init__, under SpecConstruct.                   *)
(***************************************************************************)
\* C21: when proficiency is not given, the proficiency bonus of the creature is
\* max(cr - 1, 0) div 4 + 2, and for every challenge rating of 0, 1/8, 1/4, 1/2,
\* 1, ..., 30 it lies between 2 and 9.
C21_ProficiencyFromChallengeRating ==
    pc = "constructed"
    => /\ 8 * (creatures[1].proficiency - 2) <= Max(pending.cr - 8, 0) \div 4
       /\ Max(pending.cr - 8, 0) \div 4 < 8 * (creatures[1].proficiency - 1)
       /\ creatures[1].proficiency \in 2..9

\* a creature of challenge rating 30 has been constructed with proficiency bonus 9
C21_Witness ==
    /\ pc = "constructed"
    /\ pending.cr = 8 * 30
    /\ creatures[1].proficiency = 9

\* C22: a creature constructed with hit points 'NdM' (N in 1..10, M in {6, 8, 10,
\* 12, 20}, constitution 12) has hp = max_hp and N <= max_hp <= N * M.
C22_HitPointsWithinDice ==
    pc = "constructed"
    => /\ creatures[1].hp = creatures[1].max_hp
       /\ pending.num_hit_die <= creatures[1].max_hp
       /\ creatures[1].max_hp <= pending.num_hit_die * pending.hit_die

(***************************************************************************)
(* Properties of the death save of start_turn, under Spec.                 *)
(***************************************************************************)
\* what the table of death saves leaves of a dying creature that rolls r: its hit
\* points, conditions and tally
DeathSaveTable(self, r, after) ==
    LET successes == self.death_saves.successes
        failures == self.death_saves.failures + (IF r = 1 THEN 2 ELSE 1)
        same(tally) == /\ after.death_saves = tally
                       /\ after.conditions = self.conditions
                       /\ after.hp = self.hp
    IN  IF r <= 9
        THEN IF failures >= 3
             THEN "dead" \in after.conditions
             ELSE same([successes |-> successes, failures |-> failures])
        ELSE IF r <= 19
        THEN IF successes + 1 = 3
             THEN /\ "dying" \notin after.conditions
                  /\ "dead" \notin after.conditions
                  /\ ("unconscious" \in after.conditions) = ("unconscious" \in self.conditions)
                  /\ after.hp = 0
             ELSE IF self.death_saves.failures >= 3
             THEN "dead" \in after.conditions
             ELSE same([successes |-> successes + 1,
                        failures |-> self.death_saves.failures])
        ELSE /\ after.hp = 1
             /\ "dying" \notin after.conditions
             /\ "unconscious" \notin after.conditions

C25_NoRollAfterTargetIsDown ==
    [][(/\ pc = "attack"
        /\ last'.op \in {"roll_attack", "take_damage"})
       => /\ attacks_made < creatures[initiative[turn]].num_attacks
          /\ ~(/\ attacks_made > 0
                /\ last.op = "post_damage_traits"
                /\ last.outcome \in {"knocked_out", "dead", "instant_death"})]_vars

UndeadFortitudeRule(self, damage, damage_result, save, after) ==
    LET unchanged == after = [self |-> self, outcome |-> damage_result]
    IN  IF damage_result \notin {"knocked_out", "dead"} THEN unchanged
        ELSE IF damage.radiant \/ damage.from_crit THEN unchanged
        ELSE IF save + (self.abilities.con - 10) \div 2 >= 5 + damage.total
        THEN /\ after.outcome = "reanimated"
             /\ after.self.hp = 1
             /\ after.self.conditions \cap {"dead", "dying", "unconscious"} = {}
        ELSE unchanged

C28_HitOnUnconsciousIsCritical ==
    [][(/\ pc = "attack"
        /\ last'.op = "take_damage"
        /\ "unconscious" \in creatures[last'.creature].conditions)
       => /\ pending'.from_crit
          /\ last'.dying_before
                 => creatures'[last'.creature].death_saves.failures
                        = creatures[last'.creature].death_saves.failures + 2]_vars

C30_AddConditionIdempotent ==
    /\ [](\A c \in Creatures :
             \A j, k \in DOMAIN battle.temp_conditions[c] :
                 (/\ battle.temp_conditions[c][j].condition
                        = battle.temp_conditions[c][k].condition
                  /\ battle.temp_conditions[c][j].caused_by
                        = battle.temp_conditions[c][k].caused_by)
                 => j = k)
    /\ [][\A c \in Creatures :
             /\ Len(battle'.temp_conditions[c]) >= Len(battle.temp_conditions[c])
             /\ SubSeq(battle'.temp_conditions[c], 1, Len(battle.temp_conditions[c]))
                    = battle.temp_conditions[c]]_vars

\* the adhesive pseudopod has hit a target that was dying, which an earlier hit had
\* grappled: the ledger of the target still holds the one entry
C30_Witness ==
    /\ last.op = "post_damage_traits"
    /\ last.dying_before
    /\ last.outcome = "still_dying"
    /\ battle.temp_conditions[last.creature]
           = <<[condition |-> "grappled", caused_by |-> enemy_of(last.creature)]>>

(***************************************************************************)
(* The end of a temporary condition, under Spec.                           *)
(***************************************************************************)
\* C31: check_if_condition_ended reports a temporary condition as ended whenever the
\* affected creature has a condition of end_on_target_conditions (dead,
\* incapacitated) or its causer one of end_on_causer_conditions (none by default),
\* and as not ended otherwise.
C31_EndedIffTargetDeadOrIncapacitated ==
    \A target \in Creatures :
        \A k \in DOMAIN battle.temp_conditions[target] :
            check_if_condition_ended(battle.temp_conditions[target][k], target,
                                     battle.temp_conditions)
                <=> creatures[target].conditions \cap {"dead", "incapacitated"} # {}

(***************************************************************************)
(* Properties of the movement in an encounter, under SpecRanged.           *)
(***************************************************************************)
\* C32: choose_movement never moves a creature that is within 5 ft of its enemy: it
\* returns no movement, for every weapon loadout and every remaining movement, and
\* no step taken from within 5 ft changes the position of a creature.
C32_NoMoveWithinFiveFeet ==
    /\ [](Distance <= 5
            => \A c \in Creatures : \A left \in {0, 5, 30, 60} :
                   choose_movement([creatures[c] EXCEPT !.remaining_movement = left],
                                   creatures[enemy_of(c)]) = <<>>)
    /\ [][Distance <= 5
            => \A c \in Creatures : creatures'[c].position = creatures[c].position]_vars

\* creature 1, which carries a ranged weapon, has made an attack roll from where it
\* started, 5 ft from the enemy that had closed in on it
C32_Witness ==
    /\ creatures[1].position = 0
    /\ Distance = 5
    /\ AttackRollMade
    /\ LastAttacker = 1
    /\ \E i \in DOMAIN creatures[1].weapons : ~creatures[1].weapons[i].melee

\* a step moves no creature farther than the remaining movement it has in its turn
EachMoveWithinRemaining ==
    \A c \in Creatures :
        get_distance(creatures'[c].position, creatures[c].position)
            <= creatures'[c].remaining_movement

\* C33: movement never exceeds the available movement: every single move covers at
\* most the remaining movement of the creature that moves, and the whole distance a
\* creature moves during one turn, over all attacks of its action, is at most its
\* speed, or twice its speed on a dash (its remaining movement, which start_turn
\* sets to the speed and a dash raises by it).  Creature 1 starts at 0 and has one
\* turn in round 1.
C33_MovementWithinRemaining ==
    /\ [](battle.round = 1
            => get_distance(creatures[1].position, 0) <= creatures[1].remaining_movement)
    /\ [][EachMoveWithinRemaining]_vars

(***************************************************************************)
(* Properties of the choice of weapon, under SpecRanged.                   *)
(***************************************************************************)
\* the attacker of the step as choose_attack has seen it: moved, before its roll
Chooser == move(creatures[LastAttacker'], creatures'[LastAttacker'].position)

\* the options choose_attack of the step has chosen among
OptionsChosenAmong ==
    options_in_order(Chooser, _get_attack_options(Chooser, <<Distance'>>), Distance')

\* C34: the weapon chosen by choose_attack always has the maximum expected damage
\* among the attacker's usable options at the current distance; randomness only
\* breaks ties among the options at that maximum.
C34_ChosenWeaponIsBest ==
    [][(pc = "attack" /\ AttackRollMade')
       => \E k \in DOMAIN OptionsChosenAmong :
              /\ OptionsChosenAmong[k][1] = last'.weapon
              /\ OptionsChosenAmong[k][3] = last'.thrown
              /\ OptionsChosenAmong[k][2] = best_damage_of(OptionsChosenAmong)]_vars

\* C35: when different_attacks is enforced, no weapon name is used for more than one
\* attack roll within the same turn of a creature: the weapon of every attack roll
\* is none of the weapons used this turn, and is one of them after the roll; the set
\* of weapons used is empty again at the start of each turn of the creature.
C35_DifferentAttacksEachTurn ==
    /\ [][(/\ pc = "attack"
            /\ AttackRollMade'
            /\ creatures[LastAttacker'].different_attacks)
           => /\ LastWeapon'.name \notin creatures[LastAttacker'].weapons_used_this_turn
              /\ creatures'[LastAttacker'].weapons_used_this_turn
                     = creatures[LastAttacker'].weapons_used_this_turn
                           \cup {LastWeapon'.name}]_vars
    /\ [][pc = "take_turn"
           => creatures'[initiative[turn]].weapons_used_this_turn = {}]_vars

\* a creature with two attacks has made its second attack roll of the turn, with
\* another weapon than the first
C35_Witness ==
    /\ AttackRollMade
    /\ creatures[LastAttacker].different_attacks
    /\ Cardinality(creatures[LastAttacker].weapons_used_this_turn) = 2

(***************************************************************************)
(* The order of the turns of an encounter, under Spec.                     *)
(***************************************************************************)
\* C36: initiative is rolled exactly once per encounter, before the first turn; in
\* every round the creatures take their turns in the same order, that of the
\* initiative, which is non-increasing in initiative total, and each creature takes
\* at most one turn per round: a turn begins for the next creature of the order in
\* the same round, or for the first one in the next round.
C36_InitiativeOrder ==
    /\ [](/\ pc = "not_started" <=> initiative = <<>>
          /\ initiative # <<>>
                 => \E first \in Creatures : initiative = <<first, enemy_of(first)>>
          /\ \A rolled1, rolled2 \in Faces :
                 LET total == [c \in Creatures |->
                                  (IF c = 1 THEN rolled1 ELSE rolled2)
                                      + get_modifier(creatures[c].abilities, "dex")]
                     order == roll_initiative(total[1], total[2])
                 IN  total[order[1]] >= total[order[2]])
    /\ [][/\ initiative' # initiative => pc = "not_started"
          /\ turn' # turn => pc' = "take_turn"
          /\ pc' = "take_turn"
                 => \/ turn' = turn /\ pc = "take_turn" /\ UNCHANGED vars
                    \/ turn' = turn + 1 /\ battle'.round = battle.round
                    \/ turn' = 1 /\ turn \in {0, Len(initiative)}
                                 /\ battle'.round = battle.round + 1]_vars

\* the second round has come to the turn of creature 1, second in the initiative
C36_Witness ==
    /\ battle.round = 2
    /\ initiative = <<2, 1>>
    /\ turn = 2
    /\ last.op = "start_turn"
    /\ last.creature = 1

(***************************************************************************)
(* Properties of the batch runner, under SpecBatch.                        *)
(***************************************************************************)
\* the tally of wins under the key, 0 if the key is absent
tally(key) == IF key \in DOMAIN pending.wins THEN pending.wins[key] ELSE 0

\* C37: after MultiEncounter1v1.run() with num_runs = N every encounter has been
\* counted exactly once: the win tallies of the two creatures plus the Stalemate
\* tally (0 if absent) sum to N, and each tally only ever increases.
C37_EveryEncounterCountedOnce ==
    /\ [](pc = "returned"
            => tally(pending.names[1]) + tally(pending.names[2]) + tally("Stalemate")
                   = pending.num_runs)
    /\ [][\A key \in DOMAIN pending.wins :
             /\ key \in DOMAIN pending'.wins
             /\ pending'.wins[key] >= pending.wins[key]]_vars

(***************************************************************************)
(* Invariants of the conditions of a creature, under SpecCreature.         *)
(***************************************************************************)
\* C38: in every reachable state of every creature, dying implies unconscious,
\* hp = 0 and make_death_saves, and dead implies hp = 0 and neither dying nor
\* unconscious.
C38_DyingAndDeadStates ==
    \A c \in Creatures :
        /\ "dying" \in creatures[c].conditions
               => /\ "unconscious" \in creatures[c].conditions
                  /\ creatures[c].hp = 0
                  /\ creatures[c].make_death_saves
        /\ "dead" \in creatures[c].conditions
               => /\ creatures[c].hp = 0
                  /\ creatures[c].conditions \cap {"dying", "unconscious"} = {}

(***************************************************************************)
(* Invariants of the death-save tally in an encounter, under Spec.         *)
(***************************************************************************)
\* C39: in every reachable state, a creature that is not dead has fewer than 3
\* death-save failures and fewer than 3 death-save successes, also after Undead
\* Fortitude has reanimated a creature that its death-save failures had killed.
C39_TallyBelowThreeUnlessDead ==
    \A c \in Creatures :
        "dead" \notin creatures[c].conditions
            => /\ creatures[c].death_saves.failures < 3
               /\ creatures[c].death_saves.successes < 3

(***************************************************************************)
(* The effect of an attack that misses, under SpecRanged.                  *)
(***************************************************************************)
\* the step is an iteration of attack whose attack roll has missed: the roll was
\* made, no damage was dealt and nothing was raised, and the target takes damage
\* of the weapon's type in full (a hit always deals damage to it)
AttackMisses ==
    /\ pc = "attack"
    /\ AttackRollMade'
    /\ last'.op = "roll_attack"
    /\ LastWeapon'.damage_type
           \notin creatures[enemy_of(last'.creature)].immunities
                      \cup creatures[enemy_of(last'.creature)].resistances

\* C40: an attack that misses leaves the target's HP, conditions and death-save
\* tally and the battle's condition ledger unchanged; the only state it changes is
\* the attacker's attack_used flag, its set of weapons used this turn and, for a
\* fired or thrown weapon, that weapon's quantity.  (The move that the iteration
\* makes before the attack has set the attacker's position.)
C40_MissChangesOnlyTheAttacker ==
    [][AttackMisses
       => LET a == last'.creature
              weapon == last'.weapon
          IN  /\ creatures'[enemy_of(a)] = creatures[enemy_of(a)]
              /\ battle'.temp_conditions = battle.temp_conditions
              /\ creatures'[a] =
                     [creatures[a] EXCEPT
                         !.position = creatures'[a].position,
                         !.attack_used = TRUE,
                         !.weapons_used_this_turn = @ \cup {creatures[a].weapons[weapon].name},
                         !.weapons[weapon].quantity =
                             IF ~creatures[a].weapons[weapon].melee \/ last'.thrown
                             THEN @ - 1 ELSE @]]_vars

\* a thrown weapon, the last of its kind, has missed
C40_Witness ==
    /\ AttackRollMade
    /\ last.op = "roll_attack"
    /\ last.thrown
    /\ LastWeapon.melee
    /\ LastWeapon.quantity = 0

====
